---- MODULE Spec2Model ----
(***************************************************************************)
(* Nara-Chart front end: the trend-analytics pipeline of TrendChart        *)
(* (sorting, date filter, EMA / LOESS smoothing, forecast points), the     *)
(* request functions of api/bids.js and the data-loading hook and keyword  *)
(* debounce of App.js.                                                     *)
(*                                                                         *)
(* Encodings.                                                              *)
(*  - A JavaScript value is a record [k, n, d]: k is "null", "undefined",  *)
(*    "nan", "num" (the rational n/d in lowest terms, d > 0) or the kind   *)
(*    of a string.  Numbers are exact rationals.                           *)
(*  - The strings are: "str", a date string, the empty string or a string  *)
(*    that is neither a date nor a number; "text", the text String(r) of a *)
(*    number; "numstr", another string that converts to a number; "cat",   *)
(*    a string with the text of a number appended.  A string that converts *)
(*    to Infinity is no value of the model.                                *)
(*  - A string 'YYYY-MM-DD' is the number YYYYMMDD (fixed-width digit      *)
(*    strings order lexicographically as their numbers do), '' is 0 and    *)
(*    the string that is neither a date nor a number is -1.                *)
(*  - A Date object is [valid, day, ms]: day counts days since           *)
(*    1970-01-01 and ms the milliseconds into the day.  Date strings are   *)
(*    date-only, parsed as UTC midnight; the local time zone is UTC.       *)
(*  - An object is a function from its keys to values.  The Korean keys    *)
(*    are written bidDate, estimatedPrice, basePrice, winningPrice,        *)
(*    baseRatio and estRatio.                                              *)
(***************************************************************************)
EXTENDS Integers, Sequences, FiniteSets, TLC

VARIABLES
    \* App.js: App and useBidsTrendData
    keyword, debouncedKeyword, filters, timers, requests,
    data, loading, error, optionFetches, options,
    \* what React has rendered: the option lists the selects show, whether
    \* App is still mounted, the debouncedKeyword of the last render, and
    \* whether the effect of useBidsTrendData of that render is still to run
    shownOptions, appMounted, renderedKeyword, effectDue,
    \* history: the time since the last keyword edit, and for each keyword
    \* that a request can carry whether the input has held it for the delay
    keywordAge, keywordHeld,
    \* TrendChart
    rawData, dateFrom, dateTo, mode, showEMA, showLOESS, checked, chartData,
    \* one call of a function of the code, and what it returned
    call, ret

appVars == <<keyword, debouncedKeyword, filters, timers, requests,
             data, loading, error, optionFetches, options,
             shownOptions, appMounted, renderedKeyword, effectDue,
             keywordAge, keywordHeld>>
chartVars == <<rawData, dateFrom, dateTo, mode, showEMA, showLOESS, checked,
               chartData>>
fnVars == <<call, ret>>
vars == <<appVars, chartVars, fnVars>>

(***************************************************************************)
(* Bounds of the model.                                                    *)
(***************************************************************************)
MaxLen == 2
MaxMonths == 3
MaxSeries == 3
\* length of the long LOESS sequences given to predictLOESS
MaxLong == 7
MaxRequests == 3

(***************************************************************************)
(* JavaScript values.                                                      *)
(***************************************************************************)
Null == [k |-> "null", n |-> 0, d |-> 1]
Undefined == [k |-> "undefined", n |-> 0, d |-> 1]
NaN == [k |-> "nan", n |-> 0, d |-> 1]
\* a string, numbered as the section on dates says: a date string, the empty
\* string Str(0), or Str(-1), a string such as 'not a date' that new Date
\* reads as no date and Number as no number
Str(s) == [k |-> "str", n |-> s, d |-> 1]

Abs(x) == IF x < 0 THEN 0 - x ELSE x

RECURSIVE GCD(_, _)
GCD(a, b) == IF b = 0 THEN a ELSE GCD(b, a % b)

\* the number n/d (d # 0), in lowest terms
Rat(n, d) ==
    LET g == GCD(Abs(n), Abs(d))
        s == IF d < 0 THEN 0 - 1 ELSE 1
    IN  [k |-> "num", n |-> (s * n) \div g, d |-> (s * d) \div g]

Num(n) == Rat(n, 1)

\* sums and products cancel common factors before they multiply
RAdd(a, b) ==
    LET g == GCD(a.d, b.d)
    IN  Rat(a.n * (b.d \div g) + b.n * (a.d \div g), (a.d \div g) * b.d)
RNeg(a) == [k |-> "num", n |-> 0 - a.n, d |-> a.d]
RSub(a, b) == RAdd(a, RNeg(b))
RMul(a, b) ==
    LET g1 == GCD(Abs(a.n), b.d)
        g2 == GCD(Abs(b.n), a.d)
    IN  Rat((a.n \div g1) * (b.n \div g2), (a.d \div g2) * (b.d \div g1))
RDiv(a, b) == RMul(a, [k |-> "num", n |-> IF b.n < 0 THEN 0 - b.d ELSE b.d, d |-> Abs(b.n)])
RLess(a, b) == a.n * b.d < b.n * a.d

\* typeof v === 'number' && !Number.isNaN(v)
IsNumber(v) == v.k = "num"

\* String(r) of a number r, the string that '' + r makes
NumberText(r) == [k |-> "text", n |-> r.n, d |-> r.d]

\* a string that Number converts to the number r, that is not String(r) and
\* that new Date reads as no date: ' ' is 0, '1e3' is 1000, '0x10' is 16
NumericString(r) == [k |-> "numstr", n |-> r.n, d |-> r.d]

\* 10 to the number of digits of the natural number x
RECURSIVE ShiftOf(_)
ShiftOf(x) == IF x < 10 THEN 10 ELSE 10 * ShiftOf(x \div 10)

\* s + r for a string s: the string s followed by String(r). '' + r is
\* String(r), and the digits of an integer other than 0 followed by the
\* digits of a natural number are the text of a number: '5' + 10 is '510'.
\* Any other one is a value of a forecast point, which the code hands to the
\* chart and converts nowhere.
Concat(s, r) ==
    IF s = Str(0) THEN NumberText(r)
    ELSE IF s.k = "text" /\ s.d = 1 /\ s.n # 0 /\ r.d = 1 /\ r.n >= 0
    THEN NumberText(Num(s.n * ShiftOf(r.n) + (IF s.n < 0 THEN 0 - r.n ELSE r.n)))
    ELSE [k |-> "cat", n |-> r.n, d |-> r.d, head |-> s]

\* the string converts to a number: '' is 0, and so do the text of a number
\* and a numeric string; a date string and Str(-1) convert to NaN
ConvertsToNumber(v) == v.k \in {"text", "numstr"} \/ v = Str(0)

\* value == null || isNaN(value): isNaN converts a string to a number
IsMissing(v) == v.k # "num" /\ ~ConvertsToNumber(v)

\* d[key]
Get(obj, key) == IF key \in DOMAIN obj THEN obj[key] ELSE Undefined

\* { ...obj, [key]: v }
With(obj, key, v) == (key :> v) @@ obj

\* the array [f(1), ..., f(n)] of a function f on 1..n, as a tuple
Array(f) == SubSeq(f, 1, Len(f))

(***************************************************************************)
(* Dates.                                                                  *)
(***************************************************************************)
IsLeap(y) == (y % 4 = 0 /\ y % 100 # 0) \/ y % 400 = 0

DaysInMonth(y, m) ==
    IF m = 2 THEN (IF IsLeap(y) THEN 29 ELSE 28)
    ELSE IF m \in {4, 6, 9, 11} THEN 30 ELSE 31

DaysBeforeYear(y) ==
    365 * (y - 1970) + ((y - 1969) \div 4) - ((y - 1901) \div 100)
        + ((y - 1601) \div 400)

\* days of a common year before month m
CumDays == <<0, 31, 59, 90, 120, 151, 181, 212, 243, 273, 304, 334>>

DaysBeforeMonth(y, m) == CumDays[m] + (IF m > 2 /\ IsLeap(y) THEN 1 ELSE 0)

\* MakeDay of ECMAScript: month0 counts from 0 and may exceed 11, date may
\* exceed the length of the month; both carry over.
MakeDay(y, month0, date) ==
    LET yy == y + (month0 \div 12)
        mm == (month0 % 12) + 1
    IN  DaysBeforeYear(yy) + DaysBeforeMonth(yy, mm) + date - 1

\* the year of day t, counted from 1970-01-01; t may be negative
YearOfDay(t) ==
    CHOOSE y \in (1970 + (IF t < 0 THEN t \div 365 ELSE t \div 366))
                  .. (1970 + (IF t < 0 THEN t \div 366 ELSE t \div 365)) :
        DaysBeforeYear(y) <= t /\ t < DaysBeforeYear(y + 1)

MonthOfDay(t) ==
    LET y == YearOfDay(t)
        r == t - DaysBeforeYear(y)
    IN  CHOOSE m \in 1..12 :
            DaysBeforeMonth(y, m) <= r /\ r < DaysBeforeMonth(y, m) + DaysInMonth(y, m)

DateOfDay(t) ==
    LET y == YearOfDay(t)
    IN  t - DaysBeforeYear(y) - DaysBeforeMonth(y, MonthOfDay(t)) + 1

NoDate == [ok |-> FALSE, year |-> 0, month0 |-> 0, date |-> 0]

\* Date strings are numbers inside Str(n), ordered as the strings are:
\*   n > 0                          'YYYY-MM-DD' with n = YYYYMMDD as written
\*   n = Y * 100 + M - 100000000    '+YYYYYY-MM', the expanded year Y
\*   n = Y * 100 + M - 50000000     '-YYYYYY-MM', the expanded year -Y
\*   n = -1                         a string that is no date and no number
\*   n = 0                          the empty string
\* The date parser of V8 reads 'YYYY-MM-DD' with a month 1..12 and a day
\* 1..31 as an ISO date. When the month or the day is out of range and the
\* first number is 1..31, its legacy reading takes the three numbers as
\* month, day and two-digit year (0..49 is 20xx, 50..99 is 19xx).
\* An expanded year takes a month and the first day of it. When the month
\* is out of range the legacy reading takes a year 1..12 and a month 13..31
\* of '+YYYYYY-MM' as month and day of 2001. The year -000000 is no ISO
\* year: the legacy reading drops it and takes the month alone, 00 as the
\* year 2000, 01..12 as a month of 2001, 32..99 as a two-digit year.
DateFields(s) ==
    LET y == s \div 10000
        m == (s \div 100) % 100
        d == s % 100
        e == s + (IF s < 0 - 50000000 THEN 100000000 ELSE 50000000)
    IN  IF s > 0 /\ y <= 9999 /\ m >= 1 /\ m <= 12 /\ d >= 1 /\ d <= 31
        THEN [ok |-> TRUE, year |-> y, month0 |-> m - 1, date |-> d]
        ELSE IF s > 0 /\ y >= 1 /\ y <= 12 /\ m >= 1 /\ m <= 31
        THEN [ok |-> TRUE, year |-> IF d < 50 THEN 2000 + d ELSE 1900 + d,
              month0 |-> y - 1, date |-> m]
        ELSE IF s >= 0 - 100000000 /\ s < 0 - 50000000
                /\ e % 100 >= 1 /\ e % 100 <= 12
        THEN [ok |-> TRUE, year |-> e \div 100, month0 |-> (e % 100) - 1, date |-> 1]
        ELSE IF s >= 0 - 100000000 /\ s < 0 - 50000000
                /\ e \div 100 >= 1 /\ e \div 100 <= 12
                /\ e % 100 >= 13 /\ e % 100 <= 31
        THEN [ok |-> TRUE, year |-> 2001, month0 |-> (e \div 100) - 1, date |-> e % 100]
        ELSE IF s >= 0 - 50000000 /\ s < 0 - 1 /\ e \div 100 > 0
                /\ e % 100 >= 1 /\ e % 100 <= 12
        THEN [ok |-> TRUE, year |-> 0 - (e \div 100), month0 |-> (e % 100) - 1,
              date |-> 1]
        ELSE IF s >= 0 - 50000000 /\ s < 0 - 1 /\ e \div 100 = 0 /\ e <= 12
        THEN [ok |-> TRUE, year |-> IF e = 0 THEN 2000 ELSE 2001,
              month0 |-> IF e = 0 THEN 0 ELSE e - 1, date |-> 1]
        ELSE IF s >= 0 - 50000000 /\ s < 0 - 1 /\ e \div 100 = 0 /\ e >= 32
        THEN [ok |-> TRUE, year |-> IF e < 50 THEN 2000 + e ELSE 1900 + e,
              month0 |-> 0, date |-> 1]
        ELSE NoDate

IsDateString(s) == DateFields(s).ok

InvalidDate == [valid |-> FALSE, day |-> 0, ms |-> 0]

\* a Date of ms milliseconds into the given day; TimeClip makes a time more
\* than 100,000,000 days from the epoch an Invalid Date
MakeDate(day, ms) ==
    IF day < 0 - 100000000 \/ day > 100000000 \/ (day = 100000000 /\ ms > 0)
    THEN InvalidDate
    ELSE [valid |-> TRUE, day |-> day, ms |-> ms]

\* The date parser of V8 on String(r). The text is no ISO date unless it is
\* a year of four digits, or of six digits after a minus sign, and the
\* legacy reading takes its numbers: a sign before them is dropped, the
\* number before the point comes first and the digits after the point are
\* the second number. A first number 1..31 is a month, of the year 2001,
\* and the second number is its day; any other first number is a year (of
\* two digits: 0..49 is 20xx, 50..99 is 19xx) and the second number is its
\* month. A number in exponent notation, below 1e-6, is no date.

\* the number read from the digits after the point, fn / d of them: zeros
\* at the head are skipped, and 100 stands for a number of three digits or
\* more, which is neither a month nor a day
RECURSIVE FractionNumeral(_, _)
FractionNumeral(fn, d) ==
    IF 10 * fn < d THEN FractionNumeral(10 * fn, d)
    ELSE IF (10 * fn) % d = 0 THEN (10 * fn) \div d
    ELSE IF (10 * ((10 * fn) % d)) % d = 0
    THEN 10 * ((10 * fn) \div d) + ((10 * ((10 * fn) % d)) \div d)
    ELSE 100

TwoDigitYear(y) ==
    IF y >= 0 /\ y <= 49 THEN 2000 + y
    ELSE IF y >= 50 /\ y <= 99 THEN 1900 + y
    ELSE y

\* first is the number before the point, with the sign of an ISO year of
\* six digits; second is the number after the point, 0 when there is none
NumeralFields(first, second) ==
    IF first >= 1 /\ first <= 31
    THEN IF first <= 12 /\ second <= 31
         THEN [ok |-> TRUE, year |-> 2001, month0 |-> first - 1,
               date |-> IF second = 0 THEN 1 ELSE second]
         ELSE NoDate
    ELSE IF second <= 12 /\ first <= 275760
    THEN [ok |-> TRUE, year |-> TwoDigitYear(first),
          month0 |-> IF second = 0 THEN 0 ELSE second - 1, date |-> 1]
    ELSE NoDate

NumberTextFields(v) ==
    IF v.n # 0 /\ Abs(v.n) <= (v.d - 1) \div 1000000 THEN NoDate
    ELSE NumeralFields(
             IF v.n < 0 /\ Abs(v.n) \div v.d >= 100000 /\ Abs(v.n) \div v.d <= 999999
             THEN 0 - (Abs(v.n) \div v.d) ELSE Abs(v.n) \div v.d,
             IF Abs(v.n) % v.d = 0 THEN 0 ELSE FractionNumeral(Abs(v.n) % v.d, v.d))

\* the Date at the start of the day of the fields of a date
FieldsDate(f) ==
    IF f.ok THEN MakeDate(MakeDay(f.year, f.month0, f.date), 0) ELSE InvalidDate

\* new Date(v): null is the epoch, a number is a time in milliseconds cut to
\* an integer toward zero, a date string and the text of a number are parsed
\* to the start of a day, anything else is an Invalid Date
NewDate(v) ==
    IF v.k = "null" THEN MakeDate(0, 0)
    ELSE IF v.k = "num"
    THEN LET t == IF v.n < 0 THEN 0 - ((0 - v.n) \div v.d) ELSE v.n \div v.d
         IN  MakeDate(t \div 86400000, t % 86400000)
    ELSE IF v.k = "str" THEN FieldsDate(DateFields(v.n))
    ELSE IF v.k = "text" THEN FieldsDate(NumberTextFields(v))
    ELSE InvalidDate

\* date.toISOString().slice(0, 10); a RangeError for an Invalid Date. A year
\* outside 0..9999 is written with a sign and six digits, and the first ten
\* characters end with its month
ToISODate(date) ==
    IF ~date.valid THEN [threw |-> TRUE, val |-> 0]
    ELSE LET y == YearOfDay(date.day)
             m == MonthOfDay(date.day)
         IN  [threw |-> FALSE,
              val |-> IF y > 9999 THEN y * 100 + m - 100000000
                      ELSE IF y < 0 THEN (0 - y) * 100 + m - 50000000
                      ELSE y * 10000 + m * 100
                               + (date.day - DaysBeforeYear(y) - DaysBeforeMonth(y, m) + 1)]

formatDate(iso) == ToISODate(NewDate(iso))

\* futureDate.setMonth(futureDate.getMonth() + i); the time of day stays
SetMonthPlus(date, i) ==
    IF ~date.valid THEN InvalidDate
    ELSE MakeDate(MakeDay(YearOfDay(date.day), MonthOfDay(date.day) - 1 + i,
                          DateOfDay(date.day)), date.ms)

generateFutureDates(lastDate, months) ==
    LET last == NewDate(lastDate)
        iso(i) == ToISODate(SetMonthPlus(last, i))
    IN  IF \E i \in 1..months : iso(i).threw
        THEN [threw |-> TRUE, val |-> <<>>]
        ELSE [threw |-> FALSE, val |-> Array([i \in 1..months |-> Str(iso(i).val)])]

(***************************************************************************)
(* Smoothing and forecast functions of TrendChart.                         *)
(***************************************************************************)
EMASpan == 10
ForecastMonths == 3
LoessBandwidth == Rat(3, 10)

Max(a, b) == IF a > b THEN a ELSE b
Min(a, b) == IF a < b THEN a ELSE b

\* Math.floor of a rational number
Floor(r) == r.n \div r.d

\* data.map((d) => d[key]).filter((v) => typeof v === 'number' && !Number.isNaN(v))
NumbersOf(points, key) ==
    SelectSeq(Array([i \in 1..Len(points) |-> Get(points[i], key)]),
              LAMBDA v : IsNumber(v))

\* values.reduce((a, b) => a + b, 0)
RECURSIVE SumOf(_)
SumOf(values) ==
    IF values = <<>> THEN Num(0)
    ELSE RAdd(SumOf(SubSeq(values, 1, Len(values) - 1)), values[Len(values)])

Smaller(a, b) == IF RLess(b, a) THEN b ELSE a
Larger(a, b) == IF RLess(a, b) THEN b ELSE a

\* Math.min(...values) of a non-empty array
RECURSIVE MinOf(_)
MinOf(values) ==
    IF Len(values) = 1 THEN values[1]
    ELSE Smaller(MinOf(SubSeq(values, 1, Len(values) - 1)), values[Len(values)])

\* Math.max(...values) of a non-empty array
RECURSIVE MaxOf(_)
MaxOf(values) ==
    IF Len(values) = 1 THEN values[1]
    ELSE Larger(MaxOf(SubSeq(values, 1, Len(values) - 1)), values[Len(values)])

NoStats == [avg |-> Null, min |-> Null, max |-> Null]

\* stats without the check for an empty array: 0 / 0 is NaN
StatsOfUnguarded(values) ==
    IF Len(values) = 0 THEN [avg |-> NaN, min |-> NaN, max |-> NaN]
    ELSE [avg |-> RDiv(SumOf(values), Num(Len(values))),
          min |-> MinOf(values), max |-> MaxOf(values)]

\* the entry of stats for the numbers of one field
StatsOf(values) ==
    IF Len(values) = 0 THEN NoStats
    ELSE [avg |-> RDiv(SumOf(values), Num(Len(values))),
          min |-> MinOf(values), max |-> MaxOf(values)]

\* stats[key] for every key of keys
computeStats(points, keys) ==
    [key \in {keys[i] : i \in 1..Len(keys)} |-> StatsOf(NumbersOf(points, key))]

\* value == null ? null : Number(value) * 100; Number('') is 0, and the
\* Number of a date string or of Str(-1) is NaN
toPercent(value) ==
    IF value.k \in {"null", "undefined"} THEN Null
    ELSE IF value.k = "num" \/ ConvertsToNumber(value) THEN RMul(value, Num(100))
    ELSE NaN

\* one pass of the callback of data.map in calculateEMA
EMAStep(ema, value, alpha) ==
    IF ema.k = "null" THEN value
    ELSE RAdd(RMul(alpha, value), RMul(RSub(Num(1), alpha), ema))

\* calculateEMA with a gap that resets the running average
RECURSIVE EMAMapResetOnGap(_, _, _, _)
EMAMapResetOnGap(series, key, alpha, ema) ==
    IF series = <<>> THEN <<>>
    ELSE LET value == Get(Head(series), key)
         IN  IF IsMissing(value)
             THEN <<Null>> \o EMAMapResetOnGap(Tail(series), key, alpha, Null)
             ELSE LET e == EMAStep(ema, value, alpha)
                  IN  <<e>> \o EMAMapResetOnGap(Tail(series), key, alpha, e)

RECURSIVE EMAMap(_, _, _, _)
EMAMap(series, key, alpha, ema) ==
    IF series = <<>> THEN <<>>
    ELSE LET value == Get(Head(series), key)
         IN  IF IsMissing(value)
             THEN <<Null>> \o EMAMap(Tail(series), key, alpha, ema)
             ELSE LET e == EMAStep(ema, value, alpha)
                  IN  <<e>> \o EMAMap(Tail(series), key, alpha, e)

calculateEMA(series, key, span) == EMAMap(series, key, Rat(2, span + 1), Null)

\* Math.pow(1 - Math.pow(distance, 3), 3) with distance = |i - j| / windowSize
Cube(x) == RMul(x, RMul(x, x))

\* a tricube weight whose distance is scaled by half the window
TricubeWeightHalfWindow(i, j, windowSize) ==
    Cube(RSub(Num(1), Cube(Rat(Abs(i - j), windowSize \div 2))))

TricubeWeight(i, j, windowSize) ==
    Cube(RSub(Num(1), Cube(Rat(Abs(i - j), windowSize))))

\* the inner loop of calculateLOESS from index j (0-based) to end:
\* [ws |-> weightedSum, w |-> weightSum]
\* weightedSum += weight * values[j]; weightSum += weight
LoessAdd(rest, weight, value) ==
    [ws |-> RAdd(RMul(weight, value), rest.ws), w |-> RAdd(weight, rest.w)]

RECURSIVE LoessSums(_, _, _, _, _)
LoessSums(values, i, j, end, windowSize) ==
    IF j >= end THEN [ws |-> Num(0), w |-> Num(0)]
    ELSE IF IsMissing(values[j + 1])
    THEN LoessSums(values, i, j + 1, end, windowSize)
    ELSE LoessAdd(LoessSums(values, i, j + 1, end, windowSize),
                  TricubeWeight(i, j, windowSize), values[j + 1])

\* weightSum > 0 ? weightedSum / weightSum : null
LoessRatio(s) == IF RLess(Num(0), s.w) THEN RDiv(s.ws, s.w) ELSE Null

\* the callback without the check of the point's own value
LoessAtFillsGaps(values, i, start, windowSize) ==
    LoessRatio(LoessSums(values, i, start,
                         Min(Len(values), start + windowSize), windowSize))

\* the callback of values.map at index i (0-based), from its window start
LoessAt(values, i, start, windowSize) ==
    IF IsMissing(values[i + 1]) THEN Null
    ELSE LoessRatio(LoessSums(values, i, start,
                              Min(Len(values), start + windowSize), windowSize))

LoessMap(values, windowSize) ==
    Array([x \in 1..Len(values) |->
        LoessAt(values, x - 1, Max(0, (x - 1) - (windowSize \div 2)), windowSize)])

calculateLOESS(series, key, bandwidth) ==
    LoessMap(Array([x \in 1..Len(series) |-> Get(series[x], key)]),
             Max(3, Floor(RMul(Num(Len(series)), bandwidth))))

\* Array(months).fill(lastEMA)
predictEMA(lastEMA, months) == Array([i \in 1..months |-> lastEMA])

\* v || null: 0, NaN, '', null and undefined are falsy, a string that is
\* not empty is truthy
OrNull(v) ==
    IF (v.k = "num" /\ v.n # 0) \/ v.k \in {"text", "numstr", "cat"}
       \/ (v.k = "str" /\ v.n # 0)
    THEN v ELSE Null

\* loessValues.filter(v => v != null && !isNaN(v))
ValidValues(loessValues) == SelectSeq(loessValues, LAMBDA v : ~IsMissing(v))

\* calculateLOESS above computes with real numbers. The code computes with
\* doubles: a weight other than 0 and 1 is not representable, Math.pow is
\* implementation-approximated, and the products, the sums and the quotient
\* are rounded. The double pushed at an index is the real weighted average or
\* a neighbour of it on either side, unless the computation is exact: the
\* point is alone in its window (weight 1), or every value in it is 0.
Roundings == {"below", "exact", "above"}
Inexact(values, i, start, end) ==
    /\ \E j \in start..(end - 1) : j # i /\ ~IsMissing(values[j + 1])
    /\ \E j \in start..(end - 1) : ~IsMissing(values[j + 1]) /\ values[j + 1].n # 0
Rounded(v, r) == IF v = Null THEN Null ELSE [k |-> "num", n |-> v.n, d |-> v.d, r |-> r]

\* predictLOESS with the slope taken over all the valid values instead of
\* the last five
predictLOESSWholeSlope(loessValues, months) ==
    LET validValues == SelectSeq(loessValues, LAMBDA v : v.k = "num")
        len == Len(validValues)
    IN  IF len < 2
        THEN Array([i \in 1..months |->
                IF len = 0 \/ validValues[len].n = 0 THEN Null ELSE validValues[len]])
        ELSE Array([i \in 1..months |->
                RAdd(validValues[len],
                     RMul(RDiv(RSub(validValues[len], validValues[1]), Num(len - 1)),
                          Num(i)))])

predictLOESS(loessValues, months) ==
    LET validValues == ValidValues(loessValues)
        len == Len(validValues)
    IN  IF len < 2
        THEN Array([i \in 1..months |->
                OrNull(IF len = 0 THEN Undefined ELSE validValues[len])])
        ELSE LET lastN == Min(5, len)
                 recentValues == SubSeq(validValues, len - lastN + 1, len)
                 slope == RDiv(RSub(recentValues[lastN], recentValues[1]),
                               Num(lastN - 1))
                 lastValue == validValues[len]
             IN  Array([i \in 1..months |->
                     IF lastValue.k = "num" THEN RAdd(lastValue, RMul(slope, Num(i)))
                     ELSE Concat(lastValue, RMul(slope, Num(i)))])

(***************************************************************************)
(* TrendChart: the useMemo that computes `data`.                           *)
(***************************************************************************)
amountKeys == <<"estimatedPrice", "basePrice", "winningPrice">>
ratioKeys == <<"baseRatio", "estRatio">>

\* the comparator (a, b) => new Date(a.bidDate) - new Date(b.bidDate) gives
\* a number below zero: the sort reads its result through this test alone,
\* and the NaN of an Invalid Date is read as +0
Earlier(x, y) ==
    /\ x.valid /\ y.valid
    /\ (x.day < y.day \/ (x.day = y.day /\ x.ms < y.ms))

ComparatorNegative(a, b) ==
    Earlier(NewDate(Get(a, "bidDate")), NewDate(Get(b, "bidDate")))

\* Array.prototype.sort of V8 on an array shorter than 64: the run at the
\* head of the array is counted (CountAndMakeRun), reversed when it descends,
\* and every later element is put in by binary search (BinaryInsertionSort).
\* n elements of arr are in the run so far.
RECURSIVE RunLength(_, _, _)
RunLength(arr, n, descending) ==
    IF n = Len(arr) THEN n
    ELSE IF ComparatorNegative(arr[n + 1], arr[n]) = descending
    THEN RunLength(arr, n + 1, descending)
    ELSE n

\* the place of pivot among arr[left + 1 .. right], counted from 0
RECURSIVE BinarySearch(_, _, _, _)
BinarySearch(arr, pivot, left, right) ==
    IF left >= right THEN left
    ELSE IF ComparatorNegative(pivot, arr[left + ((right - left) \div 2) + 1])
    THEN BinarySearch(arr, pivot, left, left + ((right - left) \div 2))
    ELSE BinarySearch(arr, pivot, left + ((right - left) \div 2) + 1, right)

\* the first start elements of arr are in order; the next one, the pivot,
\* moves to its place among them
RECURSIVE BinaryInsertionSort(_, _)
BinaryInsertionSort(arr, start) ==
    IF start >= Len(arr) THEN arr
    ELSE LET left == BinarySearch(arr, arr[start + 1], 0, start)
         IN  BinaryInsertionSort(
                 SubSeq(arr, 1, left) \o <<arr[start + 1]>>
                     \o SubSeq(arr, left + 1, start)
                     \o SubSeq(arr, start + 2, Len(arr)),
                 start + 1)

\* arr with its first n elements in reverse order
ReverseRange(arr, n) ==
    Array([i \in 1..Len(arr) |-> IF i <= n THEN arr[n + 1 - i] ELSE arr[i]])

\* Array.prototype.sort of V8 on an array of 64 elements or more (TimSort):
\* the array is cut into runs, each a counted run or one filled up to the
\* minimum run length by binary insertion, and the runs are merged from a
\* stack. A merge gallops once one run has won minGallop times in a row.

\* ComputeMinRunLength: r is 1 once a bit of 1 was shifted out of n
RECURSIVE ComputeMinRunLength(_, _)
ComputeMinRunLength(n, r) ==
    IF n >= 64 THEN ComputeMinRunLength(n \div 2, IF n % 2 = 1 THEN 1 ELSE r)
    ELSE n + r

\* kMinGallopWins of the engine's sort, which line 163 calls
MinGallopWins == 7

\* the element belongs before the key: a[..] < key in GallopLeft,
\* a[..] <= key in GallopRight
ElemFirst(rightmost, elem, key) ==
    ComparatorNegative(IF rightmost THEN key ELSE elem,
                       IF rightmost THEN elem ELSE key) # rightmost

\* the gallop from a[at] in the direction dir (1 right, -1 left): offset grows
\* as 1, 3, 7, .. while the element there is on the side of a[at]
RECURSIVE GallopOffsets(_, _, _, _, _, _, _, _)
GallopOffsets(rightmost, a, key, at, dir, lastOfs, offset, maxOfs) ==
    IF offset < maxOfs
       /\ ElemFirst(rightmost, a[at + (dir * offset) + 1], key) = (dir = 1)
    THEN GallopOffsets(rightmost, a, key, at, dir, offset, (2 * offset) + 1, maxOfs)
    ELSE [last |-> lastOfs, ofs |-> Min(offset, maxOfs)]

\* the binary search that ends a gallop
RECURSIVE GallopBinary(_, _, _, _, _, _)
GallopBinary(rightmost, a, key, base, lastOfs, offset) ==
    IF lastOfs >= offset THEN offset
    ELSE IF ElemFirst(rightmost, a[base + lastOfs + ((offset - lastOfs) \div 2) + 1], key)
    THEN GallopBinary(rightmost, a, key, base,
                      lastOfs + ((offset - lastOfs) \div 2) + 1, offset)
    ELSE GallopBinary(rightmost, a, key, base, lastOfs,
                      lastOfs + ((offset - lastOfs) \div 2))

\* GallopLeft (rightmost FALSE) and GallopRight (rightmost TRUE): the place
\* of key among a[base .. base + length - 1], counted from base, searched
\* from the hint
\* g is where the gallop ended: the search is between the last two offsets,
\* right of the hint when the gallop went right and left of it otherwise
GallopBetween(rightmost, a, key, base, hint, right, g) ==
    GallopBinary(rightmost, a, key, base,
                 IF right THEN g.last + hint + 1 ELSE (hint - g.ofs) + 1,
                 IF right THEN g.ofs + hint ELSE hint - g.last)

\* the gallop goes right when the element at the hint belongs before key
GallopFrom(rightmost, a, key, base, length, hint, right) ==
    GallopBetween(rightmost, a, key, base, hint, right,
        GallopOffsets(rightmost, a, key, base + hint, IF right THEN 1 ELSE 0 - 1,
                      0, 1, IF right THEN length - hint ELSE hint + 1))

Gallop(rightmost, a, key, base, length, hint) ==
    GallopFrom(rightmost, a, key, base, length, hint,
               ElemFirst(rightmost, a[base + hint + 1], key))

GallopLeft(a, key, base, length, hint) == Gallop(FALSE, a, key, base, length, hint)
GallopRight(a, key, base, length, hint) == Gallop(TRUE, a, key, base, length, hint)

\* Copy(source, srcPos, target, dstPos, n), positions counted from 0
CopyInto(target, dstPos, source, srcPos, n) ==
    Array([i \in 1..Len(target) |->
        IF i > dstPos /\ i <= dstPos + n THEN source[(srcPos + i) - dstPos]
        ELSE target[i]])

\* MergeLow copies run A to the temp array t and merges it with run B from
\* the left; MergeHigh copies run B and merges from the right. The state of
\* a merge is m = [w, t, dest, ct, c, baseA, la, lb, mg, pc, winsA, winsB]:
\* the work array, the temp array, the cursors dest, cursorTemp and cursorB
\* (cursorA in MergeHigh), the lengths left, minGallop, the part of the loop
\* that runs next ("linear", "gallop", "regallop" for a galloping round
\* after the first, "done") and the wins in a row.
MergeLowSucceed(m) ==
    [m EXCEPT !.w = IF m.la > 0 THEN CopyInto(m.w, m.dest, m.t, m.ct, m.la) ELSE m.w,
              !.pc = "done"]

MergeLowCopyB(m) ==
    [m EXCEPT !.w = [CopyInto(m.w, m.dest, m.w, m.c, m.lb)
                        EXCEPT ![m.dest + m.lb + 1] = m.t[m.ct + 1]],
              !.pc = "done"]

\* workArray[dest++] = workArray[cursorB++]; --lengthB
TakeB(m) ==
    [m EXCEPT !.w = [m.w EXCEPT ![m.dest + 1] = m.w[m.c + 1]],
              !.dest = @ + 1, !.c = @ + 1, !.lb = @ - 1]

\* workArray[dest++] = tempArray[cursorTemp++]; --lengthA
TakeTempA(m) ==
    [m EXCEPT !.w = [m.w EXCEPT ![m.dest + 1] = m.t[m.ct + 1]],
              !.dest = @ + 1, !.ct = @ + 1, !.la = @ - 1]

\* Copy of k elements of the temp array, or of run B, to dest
TakeTempAs(m, k) ==
    [m EXCEPT !.w = CopyInto(m.w, m.dest, m.t, m.ct, k),
              !.dest = @ + k, !.ct = @ + k, !.la = @ - k]
TakeBs(m, k) ==
    [m EXCEPT !.w = CopyInto(m.w, m.dest, m.w, m.c, k),
              !.dest = @ + k, !.c = @ + k, !.lb = @ - k]

\* after an element was taken in the straightforward merge: go on, or gallop
\* once one run has won minGallop times in a row (++minGallop)
AfterWin(m, winsA, winsB) ==
    IF winsA >= m.mg \/ winsB >= m.mg
    THEN [m EXCEPT !.pc = "gallop", !.mg = @ + 1, !.winsA = winsA, !.winsB = winsB]
    ELSE [m EXCEPT !.winsA = winsA, !.winsB = winsB]

\* the galloping loop is left: ++minGallop, and the straightforward merge
\* starts with no wins
LeaveGallop(m) == [m EXCEPT !.pc = "linear", !.mg = @ + 1, !.winsA = 0, !.winsB = 0]

\* the galloping loop goes on while a run won kMinGallopWins times
StaysInGallop(m) ==
    m.pc = "gallop" \/ m.winsA >= MinGallopWins \/ m.winsB >= MinGallopWins

\* the second half of a galloping round of MergeLow: B's first element, the
\* elements of B before A's first, and A's first
MergeLowGallopA(m, winsA, winsB) ==
    IF winsB > 0 /\ m.lb - winsB = 0 THEN MergeLowSucceed(TakeBs(m, winsB))
    ELSE IF m.la = 2 THEN MergeLowCopyB(TakeTempA(TakeBs(m, winsB)))
    ELSE [TakeTempA(TakeBs(m, winsB))
             EXCEPT !.pc = "regallop", !.winsA = winsA, !.winsB = winsB]

MergeLowGallopLeft(m, winsA) ==
    MergeLowGallopA(m, winsA, GallopLeft(m.w, m.t[m.ct + 1], m.c, m.lb, 0))

MergeLowGallopB(m, winsA) ==
    IF winsA > 0 /\ m.la - winsA = 1 THEN MergeLowCopyB(TakeTempAs(m, winsA))
    ELSE IF winsA > 0 /\ m.la - winsA = 0 THEN MergeLowSucceed(TakeTempAs(m, winsA))
    ELSE IF m.lb = 1 THEN MergeLowSucceed(TakeB(TakeTempAs(m, winsA)))
    ELSE MergeLowGallopLeft(TakeB(TakeTempAs(m, winsA)), winsA)

\* one pass of the straightforward loop of MergeLow, or one round of its
\* galloping loop
MergeLowStep(m) ==
    IF m.pc = "linear"
    THEN IF ComparatorNegative(m.w[m.c + 1], m.t[m.ct + 1])
         THEN IF m.lb = 1 THEN MergeLowSucceed(TakeB(m))
              ELSE AfterWin(TakeB(m), 0, m.winsB + 1)
         ELSE IF m.la = 2 THEN MergeLowCopyB(TakeTempA(m))
              ELSE AfterWin(TakeTempA(m), m.winsA + 1, 0)
    ELSE IF ~StaysInGallop(m) THEN LeaveGallop(m)
    ELSE MergeLowGallopB([m EXCEPT !.mg = Max(1, @ - 1)],
                         GallopRight(m.t, m.w[m.c + 1], m.ct, m.la, 0))

\* n steps of MergeLow, or as many as it takes
RECURSIVE MergeLowRun(_, _)
MergeLowRun(m, n) ==
    IF m.pc = "done" \/ n = 0 THEN m
    ELSE IF n = 1 THEN MergeLowStep(m)
    ELSE MergeLowRun(MergeLowRun(m, n \div 2), n - (n \div 2))

\* MergeLow once the first element of run B was taken
MergeLowFrom(m, n) ==
    IF m.lb = 0 THEN MergeLowSucceed(m)
    ELSE IF m.la = 1 THEN MergeLowCopyB(m)
    ELSE MergeLowRun(m, n)

MergeLow(w, baseA, lengthA, baseB, lengthB, minGallop) ==
    MergeLowFrom(TakeB([w |-> w, t |-> SubSeq(w, baseA + 1, baseA + lengthA),
                        dest |-> baseA, ct |-> 0, c |-> baseB, baseA |-> baseA,
                        la |-> lengthA, lb |-> lengthB, mg |-> minGallop,
                        pc |-> "linear", winsA |-> 0, winsB |-> 0]),
                 2 * (lengthA + lengthB))

MergeHighSucceed(m) ==
    [m EXCEPT !.w = IF m.lb > 0 THEN CopyInto(m.w, m.dest - (m.lb - 1), m.t, 0, m.lb)
                    ELSE m.w,
              !.pc = "done"]

MergeHighCopyA(m) ==
    [m EXCEPT !.w = [CopyInto(m.w, (m.dest - m.la) + 1, m.w, (m.c - m.la) + 1, m.la)
                        EXCEPT ![(m.dest - m.la) + 1] = m.t[m.ct + 1]],
              !.pc = "done"]

\* workArray[dest--] = workArray[cursorA--]; --lengthA
TakeA(m) ==
    [m EXCEPT !.w = [m.w EXCEPT ![m.dest + 1] = m.w[m.c + 1]],
              !.dest = @ - 1, !.c = @ - 1, !.la = @ - 1]

\* workArray[dest--] = tempArray[cursorTemp--]; --lengthB
TakeTempB(m) ==
    [m EXCEPT !.w = [m.w EXCEPT ![m.dest + 1] = m.t[m.ct + 1]],
              !.dest = @ - 1, !.ct = @ - 1, !.lb = @ - 1]

\* Copy of the last k elements left of run A, or of the temp array, to dest
TakeAs(m, k) ==
    [m EXCEPT !.w = CopyInto(m.w, (m.dest - k) + 1, m.w, (m.c - k) + 1, k),
              !.dest = @ - k, !.c = @ - k, !.la = @ - k]
TakeTempBs(m, k) ==
    [m EXCEPT !.w = CopyInto(m.w, (m.dest - k) + 1, m.t, (m.ct - k) + 1, k),
              !.dest = @ - k, !.ct = @ - k, !.lb = @ - k]

\* the second half of a galloping round of MergeHigh: the temp array's last
\* element, the elements of it after A's last, and A's last
MergeHighGallopA(m, winsA, winsB) ==
    IF winsB > 0 /\ m.lb - winsB = 1 THEN MergeHighCopyA(TakeTempBs(m, winsB))
    ELSE IF winsB > 0 /\ m.lb - winsB = 0 THEN MergeHighSucceed(TakeTempBs(m, winsB))
    ELSE IF m.la = 1 THEN MergeHighSucceed(TakeA(TakeTempBs(m, winsB)))
    ELSE [TakeA(TakeTempBs(m, winsB))
             EXCEPT !.pc = "regallop", !.winsA = winsA, !.winsB = winsB]

MergeHighGallopLeft(m, winsA) ==
    MergeHighGallopA(m, winsA,
                     m.lb - GallopLeft(m.t, m.w[m.c + 1], 0, m.lb, m.lb - 1))

MergeHighGallopB(m, winsA) ==
    IF winsA > 0 /\ m.la - winsA = 0 THEN MergeHighSucceed(TakeAs(m, winsA))
    ELSE IF m.lb = 2 THEN MergeHighCopyA(TakeTempB(TakeAs(m, winsA)))
    ELSE MergeHighGallopLeft(TakeTempB(TakeAs(m, winsA)), winsA)

MergeHighStep(m) ==
    IF m.pc = "linear"
    THEN IF ComparatorNegative(m.t[m.ct + 1], m.w[m.c + 1])
         THEN IF m.la = 1 THEN MergeHighSucceed(TakeA(m))
              ELSE AfterWin(TakeA(m), m.winsA + 1, 0)
         ELSE IF m.lb = 2 THEN MergeHighCopyA(TakeTempB(m))
              ELSE AfterWin(TakeTempB(m), 0, m.winsB + 1)
    ELSE IF ~StaysInGallop(m) THEN LeaveGallop(m)
    ELSE MergeHighGallopB(
             [m EXCEPT !.mg = Max(1, @ - 1)],
             m.la - GallopRight(m.w, m.t[m.ct + 1], m.baseA, m.la, m.la - 1))

RECURSIVE MergeHighRun(_, _)
MergeHighRun(m, n) ==
    IF m.pc = "done" \/ n = 0 THEN m
    ELSE IF n = 1 THEN MergeHighStep(m)
    ELSE MergeHighRun(MergeHighRun(m, n \div 2), n - (n \div 2))

\* MergeHigh once the last element of run A was taken
MergeHighFrom(m, n) ==
    IF m.la = 0 THEN MergeHighSucceed(m)
    ELSE IF m.lb = 1 THEN MergeHighCopyA(m)
    ELSE MergeHighRun(m, n)

MergeHigh(w, baseA, lengthA, baseB, lengthB, minGallop) ==
    MergeHighFrom(TakeA([w |-> w, t |-> SubSeq(w, baseB + 1, baseB + lengthB),
                         dest |-> (baseB + lengthB) - 1, ct |-> lengthB - 1,
                         c |-> (baseA + lengthA) - 1, baseA |-> baseA,
                         la |-> lengthA, lb |-> lengthB, mg |-> minGallop,
                         pc |-> "linear", winsA |-> 0, winsB |-> 0]),
                  2 * (lengthA + lengthB))

\* the merge of the runs a and b, which lie side by side: the elements of a
\* that stay before b and those of b that stay after a are left in place
MergeTrimmed(arr, baseA, lengthA, baseB, lengthB, minGallop) ==
    IF lengthB = 0 THEN [w |-> arr, mg |-> minGallop]
    ELSE IF lengthA <= lengthB
    THEN MergeLow(arr, baseA, lengthA, baseB, lengthB, minGallop)
    ELSE MergeHigh(arr, baseA, lengthA, baseB, lengthB, minGallop)

\* k elements of run a stay before run b
MergeAfter(arr, a, b, minGallop, k) ==
    IF a.length - k = 0 THEN [w |-> arr, mg |-> minGallop]
    ELSE MergeTrimmed(arr, a.base + k, a.length - k, b.base,
                      GallopLeft(arr, arr[a.base + a.length], b.base,
                                 b.length, b.length - 1),
                      minGallop)

MergeRuns(arr, a, b, minGallop) ==
    MergeAfter(arr, a, b, minGallop,
               GallopRight(arr, arr[b.base + 1], a.base, a.length, 0))

\* MergeAt: the runs i and i + 1 of the stack become one.
\* st = [arr, runs, minGallop]
Merged(st, i, merged) ==
    [arr |-> merged.w,
     runs |-> SubSeq(st.runs, 1, i)
                \o <<[base |-> st.runs[i + 1].base,
                      length |-> st.runs[i + 1].length + st.runs[i + 2].length]>>
                \o SubSeq(st.runs, i + 3, Len(st.runs)),
     minGallop |-> merged.mg]

MergeAt(st, i) ==
    Merged(st, i, MergeRuns(st.arr, st.runs[i + 1], st.runs[i + 2], st.minGallop))

\* run n - 2 is longer than the runs n - 1 and n together
RunInvariantEstablished(runs, n) ==
    n < 2 \/ runs[n - 1].length > runs[n].length + runs[n + 1].length

RECURSIVE MergeCollapse(_)
MergeCollapse(st) ==
    IF Len(st.runs) <= 1 THEN st
    ELSE IF ~RunInvariantEstablished(st.runs, Len(st.runs) - 1)
            \/ ~RunInvariantEstablished(st.runs, Len(st.runs) - 2)
    THEN IF st.runs[Len(st.runs) - 2].length < st.runs[Len(st.runs)].length
         THEN MergeCollapse(MergeAt(st, Len(st.runs) - 3))
         ELSE MergeCollapse(MergeAt(st, Len(st.runs) - 2))
    ELSE IF st.runs[Len(st.runs) - 1].length <= st.runs[Len(st.runs)].length
    THEN MergeCollapse(MergeAt(st, Len(st.runs) - 2))
    ELSE st

RECURSIVE MergeForceCollapse(_)
MergeForceCollapse(st) ==
    IF Len(st.runs) <= 1 THEN st
    ELSE IF Len(st.runs) > 2
            /\ st.runs[Len(st.runs) - 2].length < st.runs[Len(st.runs)].length
    THEN MergeForceCollapse(MergeAt(st, Len(st.runs) - 3))
    ELSE MergeForceCollapse(MergeAt(st, Len(st.runs) - 2))

\* the run that starts rest: counted, reversed when it descends, and filled
\* up by binary insertion to the minimum run length
ForcedRun(rest, minRun, descending, counted) ==
    BinaryInsertionSort(
        SubSeq(IF descending THEN ReverseRange(rest, counted) ELSE rest, 1,
               IF counted < minRun THEN Min(minRun, Len(rest)) ELSE counted),
        counted)

CountedRun(rest, minRun, descending) ==
    ForcedRun(rest, minRun, descending,
              IF Len(rest) = 1 THEN 1 ELSE RunLength(rest, 2, descending))

NextRun(rest, minRun) ==
    CountedRun(rest, minRun, Len(rest) > 1 /\ ComparatorNegative(rest[2], rest[1]))

\* PushRun: the run found at low goes on the stack
PushRun(st, low, run) ==
    [arr |-> SubSeq(st.arr, 1, low) \o run
               \o SubSeq(st.arr, low + Len(run) + 1, Len(st.arr)),
     runs |-> Append(st.runs, [base |-> low, length |-> Len(run)]),
     minGallop |-> st.minGallop]

\* low: the runs on the stack cover the elements before it
Low(st) ==
    IF st.runs = <<>> THEN 0
    ELSE st.runs[Len(st.runs)].base + st.runs[Len(st.runs)].length

\* ArrayTimSortImpl from the element low on
RECURSIVE TimSortFrom(_, _)
TimSortFrom(st, minRun) ==
    IF Low(st) = Len(st.arr) THEN MergeForceCollapse(st).arr
    ELSE TimSortFrom(
             MergeCollapse(
                 PushRun(st, Low(st),
                         NextRun(SubSeq(st.arr, Low(st) + 1, Len(st.arr)), minRun))),
             minRun)

TimSort(arr) ==
    TimSortFrom([arr |-> arr, runs |-> <<>>, minGallop |-> MinGallopWins],
                ComputeMinRunLength(Len(arr), 0))

\* a sort that leaves the records in their input order
SortKeepsOrder(arr) == arr

\* [...raw].sort((a, b) => new Date(a.bidDate) - new Date(b.bidDate))
SortByDate(arr) ==
    IF Len(arr) < 2 THEN arr
    ELSE IF Len(arr) >= 64 THEN TimSort(arr)
    ELSE IF ComparatorNegative(arr[2], arr[1])
    THEN BinaryInsertionSort(ReverseRange(arr, RunLength(arr, 2, TRUE)),
                             RunLength(arr, 2, TRUE))
    ELSE BinaryInsertionSort(arr, RunLength(arr, 2, FALSE))

\* the filter with bounds that exclude the bound itself
InWindowExclusive(d, from, to) ==
    LET iso == formatDate(Get(d, "bidDate")).val
    IN  IF from # 0 /\ iso <= from THEN FALSE
        ELSE IF to # 0 /\ iso >= to THEN FALSE
        ELSE TRUE

\* a filter that also drops a record without a winning price
InWindowComplete(d, from, to) ==
    LET iso == formatDate(Get(d, "bidDate")).val
    IN  IF IsMissing(Get(d, "winningPrice")) THEN FALSE
        ELSE IF from # 0 /\ iso < from THEN FALSE
        ELSE IF to # 0 /\ iso > to THEN FALSE
        ELSE TRUE

\* the callback of sorted.filter, for a record whose date formats
InWindow(d, from, to) ==
    LET iso == formatDate(Get(d, "bidDate")).val
    IN  IF from # 0 /\ iso < from THEN FALSE
        ELSE IF to # 0 /\ iso > to THEN FALSE
        ELSE TRUE

\* ratio mode: { ...d, baseRatio: toPercent(..), estRatio: toPercent(..) }
ToRatioPoint(d) ==
    With(With(d, "baseRatio", toPercent(Get(d, "baseRatio"))),
         "estRatio", toPercent(Get(d, "estRatio")))

\* processedData.map((d, i) => ({ ...d, [name]: values[i] }))
Attach(points, name, values) ==
    Array([i \in 1..Len(points) |-> With(points[i], name, values[i])])

EmptyObject == [x \in {} |-> <<>>]

\* keysToProcess.forEach of the smoothing loop, from the state acc =
\* [pd |-> processedData, emaByKey, loessByKey]
\* emaByKey[key] = emaValues; processedData gets the `${key}_EMA` field
PutEMA(acc, key, emaValues) ==
    [acc EXCEPT !.pd = Attach(@, key \o "_EMA", emaValues),
                !.emaByKey = With(@, key, emaValues)]

\* loessByKey[key] = loessValues; processedData gets the `${key}_LOESS` field
PutLOESS(acc, key, loessValues) ==
    [acc EXCEPT !.pd = Attach(@, key \o "_LOESS", loessValues),
                !.loessByKey = With(@, key, loessValues)]

\* if (showEMA) { ... }
SmoothEMA(acc, key, ema) ==
    IF ema THEN PutEMA(acc, key, calculateEMA(acc.pd, key, EMASpan)) ELSE acc

\* a LOESS that smooths the attached `${key}_EMA` field when there is one
SmoothLOESSOfEMA(acc, key, loess) ==
    IF loess
    THEN PutLOESS(acc, key,
             calculateLOESS(acc.pd,
                            IF key \in DOMAIN acc.emaByKey THEN key \o "_EMA" ELSE key,
                            LoessBandwidth))
    ELSE acc

\* if (showLOESS) { ... }
SmoothLOESS(acc, key, loess) ==
    IF loess THEN PutLOESS(acc, key, calculateLOESS(acc.pd, key, LoessBandwidth)) ELSE acc

RECURSIVE SmoothKeys(_, _, _, _)
SmoothKeys(keys, acc, ema, loess) ==
    IF keys = <<>> THEN acc
    ELSE SmoothKeys(Tail(keys),
                    SmoothLOESS(SmoothEMA(acc, Head(keys), ema), Head(keys), loess),
                    ema, loess)

\* the forecast value of the EMA line of a field: the last element of its
\* EMA sequence, kept flat
LastEMA(emaValues) == emaValues[Len(emaValues)]

\* if (showEMA && emaByKey[key]) futurePoint[`${key}_EMA`] = predictions[idx]
FutureEMA(point, key, idx, acc, ema) ==
    IF ema /\ key \in DOMAIN acc.emaByKey
    THEN With(point, key \o "_EMA",
              predictEMA(LastEMA(acc.emaByKey[key]), ForecastMonths)[idx])
    ELSE point

\* if (showLOESS && loessByKey[key]) futurePoint[`${key}_LOESS`] = predictions[idx]
FutureLOESS(point, key, idx, acc, loess) ==
    IF loess /\ key \in DOMAIN acc.loessByKey
    THEN With(point, key \o "_LOESS",
              predictLOESS(acc.loessByKey[key], ForecastMonths)[idx])
    ELSE point

\* keysToProcess.forEach that fills one futurePoint
RECURSIVE FillFuturePoint(_, _, _, _, _, _)
FillFuturePoint(point, keys, idx, acc, ema, loess) ==
    IF keys = <<>> THEN point
    ELSE FillFuturePoint(
             FutureLOESS(FutureEMA(point, Head(keys), idx, acc, ema),
                         Head(keys), idx, acc, loess),
             Tail(keys), idx, acc, ema, loess)

\* a forecast point whose historical fields are 0 instead of null
ZeroFuturePoint(futureDate) ==
    [bidDate |-> futureDate, estimatedPrice |-> Num(0), basePrice |-> Num(0),
     winningPrice |-> Num(0), baseRatio |-> Num(0), estRatio |-> Num(0)]

BlankFuturePoint(futureDate) ==
    [bidDate |-> futureDate, estimatedPrice |-> Null, basePrice |-> Null,
     winningPrice |-> Null, baseRatio |-> Null, estRatio |-> Null]

\* forecast points only when both smoothers are on
HasFutureBoth(n, ema, loess) == (ema /\ loess) /\ n > 0

\* (showEMA || showLOESS) && processedData.length > 0
HasFuture(n, ema, loess) == (ema \/ loess) /\ n > 0

Threw == [threw |-> TRUE, val |-> <<>>]

\* futureDates.forEach(...): the smoothed points, then one point per date
PushFuture(acc, futureDates, keys, ema, loess) ==
    IF futureDates.threw THEN Threw
    ELSE [threw |-> FALSE,
          val |-> acc.pd \o
              Array([idx \in 1..Len(futureDates.val) |->
                  FillFuturePoint(BlankFuturePoint(futureDates.val[idx]),
                                  keys, idx, acc, ema, loess)])]

\* the future points, added when a smoother is on and a point exists
AddFuture(acc, keys, ema, loess) ==
    IF ~HasFuture(Len(acc.pd), ema, loess) THEN [threw |-> FALSE, val |-> acc.pd]
    ELSE PushFuture(acc,
                    generateFutureDates(Get(acc.pd[Len(acc.pd)], "bidDate"),
                                        ForecastMonths),
                    keys, ema, loess)

\* the smoothing loop and the forecast, for the processed points
FromProcessed(processed, keys, ema, loess) ==
    AddFuture(SmoothKeys(keys, [pd |-> processed, emaByKey |-> EmptyObject,
                                loessByKey |-> EmptyObject], ema, loess),
              keys, ema, loess)

\* the ratio mapping of the filtered records
FromFiltered(filtered, md, ema, loess) ==
    FromProcessed(IF md = "amount" THEN filtered
                  ELSE Array([i \in 1..Len(filtered) |-> ToRatioPoint(filtered[i])]),
                  IF md = "amount" THEN amountKeys ELSE ratioKeys,
                  ema, loess)

\* the date filter of the sorted records; formatDate throws on a bad date
FromSorted(sorted, from, to, md, ema, loess) ==
    IF \E i \in 1..Len(sorted) : formatDate(Get(sorted[i], "bidDate")).threw
    THEN Threw
    ELSE FromFiltered(SelectSeq(sorted, LAMBDA d : InWindow(d, from, to)),
                      md, ema, loess)

\* the whole useMemo: [threw, val]; threw when formatDate raised its RangeError
Pipeline(raw, from, to, md, ema, loess) ==
    FromSorted(SortByDate(raw), from, to, md, ema, loess)

\* (mode === 'amount' ? amountKeys : ratioKeys).filter((k) => checked[k])
ModeKeys(md) == IF md = "amount" THEN amountKeys ELSE ratioKeys
visibleKeys(md, chk) == SelectSeq(ModeKeys(md), LAMBDA k : chk[k])

ChartIdle ==
    /\ rawData = <<>> /\ mode = "amount" /\ showEMA = FALSE /\ showLOESS = FALSE
    /\ dateFrom = 0 /\ dateTo = 0 /\ checked = <<>>
    /\ chartData = [threw |-> FALSE, val |-> <<>>]

FnIdle == call = [fn |-> "none"] /\ ret = [done |-> FALSE, threw |-> FALSE, val |-> <<>>]

(***************************************************************************)
(* App.js: the keyword debounce of App and the effect of useBidsTrendData. *)
(* Time advances in steps of half the debounce delay; a timer that is due  *)
(* may fire late.                                                          *)
(***************************************************************************)
DebounceMs == 400
TickMs == DebounceMs \div 2

\* the values the keyword input is edited to: a keyword is typed and retyped,
\* and the input is never cleared
Keywords == {"a", "ab"}
FilterNames == {"organization", "industry", "region", "bidDateFrom", "bidDateTo"}
FilterValues == {"", "x"}
\* the inputs the model edits: one select and one date input
EditedFilters == {"organization", "bidDateFrom"}
SearchParams ==
    {"keyword", "organization", "industry", "region", "bid_date_from", "bid_date_to"}

\* the argument searchBids receives for a parameter of the query string
SearchArg(kw, flt, param) ==
    IF param = "keyword" THEN kw
    ELSE IF param = "bid_date_from" THEN flt["bidDateFrom"]
    ELSE IF param = "bid_date_to" THEN flt["bidDateTo"]
    ELSE flt[param]

\* the query string of searchBids: a filter is set only when it is truthy
searchBidsUrl(kw, flt) ==
    [param \in {q \in SearchParams : SearchArg(kw, flt, q) # ""} \cup {"skip", "limit"} |->
        IF param = "skip" THEN "0"
        ELSE IF param = "limit" THEN "500"
        ELSE SearchArg(kw, flt, param)]

fetchBidsUrl == [param \in {"skip", "limit"} |-> IF param = "skip" THEN "0" ELSE "500"]

\* hasSearch || bidDateFrom || bidDateTo
UsesSearch(kw, flt) == kw # "" \/ \E f \in FilterNames : flt[f] # ""

\* the request the effect of useBidsTrendData sends for its dependencies
NewRequest(kw, flt) ==
    [fn |-> IF UsesSearch(kw, flt) THEN "searchBids" ELSE "fetchBids",
     url |-> IF UsesSearch(kw, flt) THEN searchBidsUrl(kw, flt) ELSE fetchBidsUrl,
     mounted |-> TRUE,
     state |-> "pending"]

\* an effect cleanup that leaves the flag of the superseded run set
CleanupKeepsMounted(reqs) == reqs

\* the cleanup of the previous run of the effect: mounted = false
Cleanup(reqs) ==
    IF reqs = <<>> THEN reqs ELSE [reqs EXCEPT ![Len(reqs)].mounted = FALSE]

\* the effect re-runs for changed dependencies: cleanup, then a new request
RunEffect(reqs, kw, flt) == Append(Cleanup(reqs), NewRequest(kw, flt))

\* a debounce effect without its cleanup: the pending timer stays
DebounceEffectNoCleanup(ts, k) == ts \cup {[value |-> k, elapsed |-> 0]}

\* the debounce effect re-runs for a new keyword: clearTimeout(t), then
\* setTimeout(() => setDebouncedKeyword(k), 400)
DebounceEffect(ts, k) == {[value |-> k, elapsed |-> 0]}

NoData == [req |-> 0, items |-> <<>>]

\* the three selects and the function that fetches the options of each
Selects == {"organization", "industry", "region"}

\* useState([]) of orgOptions, industryOptions and regionOptions
NoOptions == [f \in Selects |-> <<>>]

\* the lists the three option fetches return
LoadedOptions == [f \in Selects |-> <<"x">>]

\* Promise.all of the three fetches has resolved
AllFetched(fetches) == \A f \in Selects : fetches[f] = "ok"

\* a catch of the option effect that surfaces the failure
OptionCatchSurfaces(err) == [k |-> "error", n |-> 0, d |-> 1]

\* catch (e) { } of the option effect: nothing is set
OptionCatch(err) == err

\* the values a select offers are the options it was rendered with; a date
\* input takes any date
Offered(f, shown) ==
    IF f \in Selects THEN {""} \cup {shown[f][i] : i \in 1..Len(shown[f])}
    ELSE FilterValues

\* a catch that drops the error
CatchDropsError(mounted, err, e) == err

\* catch (e) { if (mounted) setError(e); }
Catch(mounted, err, e) == IF mounted THEN e ELSE err

\* a finally that leaves loading as it is
FinallyKeepsLoading(mounted, ld) == ld

\* finally { if (mounted) setLoading(false); }
Finally(mounted, ld) == IF mounted THEN FALSE ELSE ld

\* res.items of the responses of the bid service: one bid whose bid_date is
\* a date, and one bid whose bid_date is no date
BidItems ==
    {<<[bid_date |-> Str(20240115), winning_price |-> Num(90)]>>,
     <<[bid_date |-> Str(0 - 1), winning_price |-> Num(90)]>>}

\* v ?? null
OrNullish(v) == IF v.k = "undefined" THEN Null ELSE v

mapBidToTrendItem(b) ==
    [bidDate |-> Get(b, "bid_date"),
     estimatedPrice |-> OrNullish(Get(b, "estimated_price")),
     basePrice |-> OrNullish(Get(b, "base_price")),
     winningPrice |-> OrNullish(Get(b, "winning_price")),
     baseRatio |-> OrNullish(Get(b, "base_winning_rate")),
     estRatio |-> OrNullish(Get(b, "estimated_winning_rate"))]

\* {loading ? <div>...</div> : <TrendChart rawData={data} />}: the render of
\* App throws when TrendChart is rendered and its useMemo throws
RenderThrows(ld, d) ==
    ~ld /\ Pipeline(d.items, 0, 0, "amount", FALSE, FALSE).threw

Init ==
    /\ keyword = "" /\ debouncedKeyword = ""
    /\ filters = [f \in FilterNames |-> ""]
    /\ timers = DebounceEffect({}, "")
    /\ requests = RunEffect(<<>>, "", [f \in FilterNames |-> ""])
    /\ data = NoData
    /\ loading = TRUE
    /\ error = Null
    /\ optionFetches = [f \in Selects |-> "pending"]
    /\ options = NoOptions
    /\ shownOptions = NoOptions
    /\ appMounted = TRUE
    /\ renderedKeyword = ""
    /\ effectDue = FALSE
    /\ keywordAge = 0
    /\ keywordHeld = [k \in Keywords |-> FALSE]
    /\ ChartIdle /\ FnIdle

\* The state a timer or a promise sets is rendered in a later task, and the
\* effects of that render run in a task after it: a response can arrive
\* between the two. The render of an input event runs its effects at once.
\* Before React renders again it runs the effects that are still due.

\* the effect of useBidsTrendData re-runs for the debouncedKeyword of the
\* last render: cleanup, setLoading(true), a new request
FlushedRequests ==
    IF effectDue THEN RunEffect(requests, renderedKeyword, filters) ELSE requests
FlushedLoading == effectDue \/ loading

\* The render of an input event that comes before the render of the state a
\* timer or a promise has set takes those pending updates too (TRUE), or the
\* updates of the event alone (FALSE), as the React of the build orders
\* them.
RenderOrders == BOOLEAN

\* the debouncedKeyword a render passes to useBidsTrendData
EventKeyword(rk, dk, all) == IF all THEN dk ELSE rk

\* the render of App throws and no error boundary is above it: React
\* unmounts App and runs the cleanups of its effects, clearTimeout(t) and
\* mounted = false
Unmount ==
    /\ appMounted' = FALSE
    /\ timers' = {}
    /\ requests' = Cleanup(FlushedRequests)
    /\ loading' = FlushedLoading
    /\ effectDue' = FALSE
    /\ UNCHANGED <<shownOptions, renderedKeyword>>

\* onChange of the keyword input: the effects that are due, the render of
\* the event, then the debounce effect for the new keyword, and the effect
\* of useBidsTrendData when the render took a pending debouncedKeyword
EditKeyword(k) ==
    /\ appMounted
    /\ k # keyword
    /\ keyword' = k
    /\ keywordAge' = 0
    /\ \E all \in RenderOrders :
          IF all /\ RenderThrows(FlushedLoading, data)
          THEN Unmount
          ELSE /\ timers' = DebounceEffect(timers, k)
               /\ shownOptions' = IF all THEN options ELSE shownOptions
               /\ appMounted' = appMounted
               /\ effectDue' = FALSE
               /\ renderedKeyword' = EventKeyword(renderedKeyword, debouncedKeyword, all)
               /\ IF all /\ debouncedKeyword # renderedKeyword
                  THEN /\ Len(FlushedRequests) < MaxRequests
                       /\ requests' = RunEffect(FlushedRequests, debouncedKeyword, filters)
                       /\ loading' = TRUE
                  ELSE /\ requests' = FlushedRequests
                       /\ loading' = FlushedLoading
    /\ UNCHANGED <<debouncedKeyword, filters, data, error, optionFetches, options,
                   keywordHeld, chartVars, fnVars>>

\* the clock advances by TickMs
Tick ==
    /\ appMounted
    /\ keywordAge < DebounceMs \/ \E t \in timers : t.elapsed < DebounceMs
    /\ timers' = {[t EXCEPT !.elapsed = Min(@ + TickMs, DebounceMs)] : t \in timers}
    /\ keywordAge' = Min(keywordAge + TickMs, DebounceMs)
    /\ keywordHeld' = IF keywordAge' >= DebounceMs /\ keyword # ""
                      THEN [keywordHeld EXCEPT ![keyword] = TRUE]
                      ELSE keywordHeld
    /\ UNCHANGED <<keyword, debouncedKeyword, filters, requests, data, loading,
                   error, optionFetches, options, shownOptions, appMounted,
                   renderedKeyword, effectDue, chartVars, fnVars>>

\* a timer of the debounce effect fires: the callback calls
\* setDebouncedKeyword(value) and returns; the render comes in a later task
FireTimer(t) ==
    /\ t \in timers /\ t.elapsed >= DebounceMs
    /\ t.value # debouncedKeyword => Len(FlushedRequests) < MaxRequests
    /\ timers' = timers \ {t}
    /\ debouncedKeyword' = t.value
    /\ UNCHANGED <<keyword, filters, requests, loading, data, error, optionFetches,
                   options, shownOptions, appMounted, renderedKeyword, effectDue,
                   keywordAge, keywordHeld, chartVars, fnVars>>

\* React renders the state that timers and promises have set since the last
\* render, after the effects that are still due. A TrendChart that throws
\* unmounts App; otherwise the selects show the option lists, and the effect
\* of useBidsTrendData is due for a changed debouncedKeyword
Render ==
    /\ appMounted
    /\ IF RenderThrows(FlushedLoading, data)
       THEN Unmount
       ELSE /\ debouncedKeyword # renderedKeyword \/ shownOptions # options
            /\ shownOptions' = options
            /\ appMounted' = appMounted
            /\ timers' = timers
            /\ requests' = FlushedRequests
            /\ loading' = FlushedLoading
            /\ renderedKeyword' = debouncedKeyword
            /\ effectDue' = (debouncedKeyword # renderedKeyword)
            /\ effectDue' => Len(FlushedRequests) < MaxRequests
    /\ UNCHANGED <<keyword, debouncedKeyword, filters, data, error, optionFetches,
                   options, keywordAge, keywordHeld, chartVars, fnVars>>

\* the task that runs the effects of the last render: the effect of
\* useBidsTrendData re-runs for the changed debouncedKeyword
FlushEffects ==
    /\ appMounted /\ effectDue
    /\ requests' = FlushedRequests
    /\ loading' = FlushedLoading
    /\ effectDue' = FALSE
    /\ UNCHANGED <<keyword, debouncedKeyword, filters, timers, data, error,
                   optionFetches, options, shownOptions, appMounted,
                   renderedKeyword, keywordAge, keywordHeld, chartVars, fnVars>>

\* onChange of a select or of a date input: the effects that are due, the
\* render of the event, then the effect of useBidsTrendData for the changed
\* filters and the debouncedKeyword of that render
SetFilter(f, v) ==
    /\ appMounted
    /\ v \in Offered(f, shownOptions)
    /\ v # filters[f]
    /\ filters' = [filters EXCEPT ![f] = v]
    /\ \E all \in RenderOrders :
          IF all /\ RenderThrows(FlushedLoading, data)
          THEN Unmount
          ELSE /\ Len(FlushedRequests) < MaxRequests
               /\ renderedKeyword' = EventKeyword(renderedKeyword, debouncedKeyword, all)
               /\ requests' = RunEffect(FlushedRequests, renderedKeyword', filters')
               /\ loading' = TRUE
               /\ effectDue' = FALSE
               /\ shownOptions' = IF all THEN options ELSE shownOptions
               /\ UNCHANGED <<timers, appMounted>>
    /\ UNCHANGED <<keyword, debouncedKeyword, data, error, optionFetches, options,
                   keywordAge, keywordHeld, chartVars, fnVars>>

\* the response of request i arrives with res.items = items:
\* setData(mapped) and setLoading(false) when the run is still mounted
Resolve(i, items) ==
    /\ requests[i].state = "pending"
    /\ requests' = [requests EXCEPT ![i].state = "resolved"]
    /\ data' = IF requests[i].mounted
               THEN [req |-> i,
                     items |-> Array([x \in 1..Len(items) |-> mapBidToTrendItem(items[x])])]
               ELSE data
    /\ loading' = Finally(requests[i].mounted, loading)
    /\ UNCHANGED <<keyword, debouncedKeyword, filters, timers, error, optionFetches,
                   options, shownOptions, appMounted, renderedKeyword, effectDue,
                   keywordAge, keywordHeld, chartVars, fnVars>>

\* request i fails: setError(e) and setLoading(false) when still mounted
Reject(i) ==
    /\ requests[i].state = "pending"
    /\ requests' = [requests EXCEPT ![i].state = "rejected"]
    /\ error' = Catch(requests[i].mounted, error, [k |-> "error", n |-> i, d |-> 1])
    /\ loading' = Finally(requests[i].mounted, loading)
    /\ UNCHANGED <<keyword, debouncedKeyword, filters, timers, data, optionFetches,
                   options, shownOptions, appMounted, renderedKeyword, effectDue,
                   keywordAge, keywordHeld, chartVars, fnVars>>

\* one of the three option fetches resolves; when it is the last one,
\* Promise.all resolves and the three lists are set, unless App is unmounted
\* by then: if (!mounted) return
OptionResolve(f) ==
    /\ optionFetches[f] = "pending"
    /\ optionFetches' = [optionFetches EXCEPT ![f] = "ok"]
    /\ options' = IF AllFetched(optionFetches') /\ appMounted THEN LoadedOptions
                  ELSE options
    /\ UNCHANGED <<keyword, debouncedKeyword, filters, timers, requests, data,
                   loading, error, shownOptions, appMounted, renderedKeyword,
                   effectDue, keywordAge, keywordHeld, chartVars, fnVars>>

\* one of the three option fetches fails: Promise.all rejects and the
\* catch of the effect swallows the error
OptionReject(f) ==
    /\ optionFetches[f] = "pending"
    /\ optionFetches' = [optionFetches EXCEPT ![f] = "failed"]
    /\ error' = OptionCatch(error)
    /\ UNCHANGED <<keyword, debouncedKeyword, filters, timers, requests, data,
                   loading, options, shownOptions, appMounted, renderedKeyword,
                   effectDue, keywordAge, keywordHeld, chartVars, fnVars>>

Next ==
    \/ \E k \in Keywords : EditKeyword(k)
    \/ Tick
    \/ \E t \in timers : FireTimer(t)
    \/ Render
    \/ FlushEffects
    \/ \E f \in EditedFilters, v \in FilterValues : SetFilter(f, v)
    \/ \E i \in 1..Len(requests), items \in BidItems : Resolve(i, items)
    \/ \E i \in 1..Len(requests) : Reject(i)
    \/ \E f \in Selects : OptionResolve(f)
    \/ \E f \in Selects : OptionReject(f)

Spec == Init /\ [][Next]_vars

(***************************************************************************)
(* TrendChart as a state machine: the component is mounted with rawData    *)
(* and its setters re-render it.                                           *)
(***************************************************************************)
Record(date, est, base, win, bRatio, eRatio) ==
    [bidDate |-> date, estimatedPrice |-> est, basePrice |-> base,
     winningPrice |-> win, baseRatio |-> bRatio, estRatio |-> eRatio]

BadDate == Str(0 - 1)
WindowDates == {0, 20240131}

\* field values of a record: all present; all present, other numbers; mostly absent
VecA(date) == Record(date, Num(100), Num(110), Num(90), Rat(6, 5), Num(1))
VecB(date) == Record(date, Num(130), Num(110), Num(60), Num(1), Rat(9, 10))
VecC(date) == Record(date, Null, Num(110), Null, Null, Null)

BidRecords ==
    {VecA(Str(20240115)), VecB(Str(20240131)), VecC(Str(20240131)),
     VecA(Str(20240210)), VecC(Str(20240210)), VecA(BadDate)}

FieldKeys == {"estimatedPrice", "basePrice", "winningPrice", "baseRatio", "estRatio"}

\* the smoothed values of the series stay within 32-bit exact rationals: in
\* every field at most two records carry a number, or all numbers are equal
Representable(raw) ==
    \A key \in FieldKeys :
        LET valid == {i \in 1..Len(raw) : ~IsMissing(raw[i][key])}
        IN  Cardinality(valid) <= 2 \/ \A i, j \in valid : raw[i][key] = raw[j][key]

SeqsUpTo(S, n) == UNION {[1..m -> S] : m \in 0..n}

AppIdle ==
    /\ keyword = "" /\ debouncedKeyword = "" /\ filters = <<>>
    /\ timers = {} /\ requests = <<>>
    /\ data = NoData /\ loading = FALSE /\ error = Null
    /\ optionFetches = <<>> /\ options = <<>>
    /\ shownOptions = <<>> /\ appMounted = FALSE
    /\ renderedKeyword = "" /\ effectDue = FALSE
    /\ keywordAge = 0 /\ keywordHeld = <<>>

\* the checkbox the model toggles
EditedChecks == {"winningPrice"}

ChartInit ==
    /\ rawData \in {raw \in SeqsUpTo(BidRecords, MaxLen) : Representable(raw)}
    /\ mode = "amount" /\ showEMA = FALSE /\ showLOESS = FALSE
    /\ checked = [k \in FieldKeys |-> TRUE]
    /\ dateFrom = 0 /\ dateTo = 0
    /\ chartData = Pipeline(rawData, 0, 0, "amount", FALSE, FALSE)
    /\ AppIdle /\ FnIdle

Mounted == ~chartData.threw

\* the stats useMemo: computeStats(data, visibleKeys)
stats == computeStats(chartData.val, visibleKeys(mode, checked))

setMode(m) ==
    /\ Mounted /\ m # mode
    /\ mode' = m
    /\ chartData' = Pipeline(rawData, dateFrom, dateTo, m, showEMA, showLOESS)
    /\ UNCHANGED <<rawData, dateFrom, dateTo, showEMA, showLOESS, checked, appVars, fnVars>>

setShowEMA ==
    /\ Mounted
    /\ showEMA' = ~showEMA
    /\ chartData' = Pipeline(rawData, dateFrom, dateTo, mode, ~showEMA, showLOESS)
    /\ UNCHANGED <<rawData, dateFrom, dateTo, mode, showLOESS, checked, appVars, fnVars>>

setShowLOESS ==
    /\ Mounted
    /\ showLOESS' = ~showLOESS
    /\ chartData' = Pipeline(rawData, dateFrom, dateTo, mode, showEMA, ~showLOESS)
    /\ UNCHANGED <<rawData, dateFrom, dateTo, mode, showEMA, checked, appVars, fnVars>>

setDateFrom(v) ==
    /\ Mounted /\ v # dateFrom
    /\ dateFrom' = v
    /\ chartData' = Pipeline(rawData, v, dateTo, mode, showEMA, showLOESS)
    /\ UNCHANGED <<rawData, dateTo, mode, showEMA, showLOESS, checked, appVars, fnVars>>

setDateTo(v) ==
    /\ Mounted /\ v # dateTo
    /\ dateTo' = v
    /\ chartData' = Pipeline(rawData, dateFrom, v, mode, showEMA, showLOESS)
    /\ UNCHANGED <<rawData, dateFrom, mode, showEMA, showLOESS, checked, appVars, fnVars>>

\* onChange of the checkbox of a field; the boxes shown are those of the mode
setChecked(k) ==
    /\ Mounted
    /\ \E i \in 1..Len(ModeKeys(mode)) : ModeKeys(mode)[i] = k
    /\ checked' = [checked EXCEPT ![k] = ~@]
    /\ UNCHANGED <<rawData, dateFrom, dateTo, mode, showEMA, showLOESS, chartData,
                   appVars, fnVars>>

ChartNext ==
    \/ \E k \in EditedChecks : setChecked(k)
    \/ \E m \in {"amount", "ratio"} : setMode(m)
    \/ setShowEMA
    \/ setShowLOESS
    \/ \E v \in WindowDates : setDateFrom(v)
    \/ \E v \in WindowDates : setDateTo(v)

SpecChart == ChartInit /\ [][ChartNext]_vars

(***************************************************************************)
(* One call of a pure function of TrendChart: the arguments are drawn in   *)
(* the initial state and the action of the function applies it.            *)
(***************************************************************************)
LastDates ==
    {Str(20240131), Str(20240115), Str(20240229), Str(20240331),
     Str(20231130), Str(20231231), Str(20230131), Str(20241031),
     Str(99991231), BadDate}

SeriesValues == {Null, NaN, Num(0), Num(10), Num(20)}

\* an object holding v under key, or lacking the key for undefined
ObjectOf(key, v) == IF v = Undefined THEN EmptyObject ELSE (key :> v)

SeriesOf(key, values) == Array([i \in 1..Len(values) |-> ObjectOf(key, values[i])])

(***************************************************************************)
(* api/bids.js: what each function does with the response of its fetch.    *)
(* An error message is the sequence of the parts of its template string.   *)
(***************************************************************************)
HttpStatuses == {200, 404, 500}
ResponseBodies == {"", "detail", "[]"}
ApiFunctions ==
    {"fetchBids", "searchBids", "fetchOrganizations", "fetchIndustries", "fetchRegions"}
Responses ==
    [status : HttpStatuses, body : ResponseBodies, readable : BOOLEAN]

\* res.ok
ResOk(res) == res.status >= 200 /\ res.status <= 299

\* await res.text().catch(() => '')
ResText(res) == IF res.readable THEN res.body ELSE ""

Rejected(parts) == [done |-> TRUE, threw |-> TRUE, val |-> parts]

\* JSON.parse of a response body: '[]' is the empty array; '' and 'detail'
\* are not JSON texts and raise a SyntaxError
JsonParse(text) ==
    IF text = "[]" THEN [threw |-> FALSE, val |-> <<>>]
    ELSE [threw |-> TRUE, val |-> <<>>]

\* return res.json(): rejects when the body cannot be read or is not JSON
ResJson(res) ==
    IF ~res.readable THEN Rejected(<<"TypeError">>)
    ELSE IF JsonParse(res.body).threw THEN Rejected(<<"SyntaxError">>)
    ELSE [done |-> TRUE, threw |-> FALSE, val |-> <<JsonParse(res.body).val>>]

fetchBids(res) ==
    IF ~ResOk(res)
    THEN Rejected(<<"Failed to fetch bids: ", ToString(res.status), " ", ResText(res)>>)
    ELSE ResJson(res)

searchBids(res) ==
    IF ~ResOk(res)
    THEN Rejected(<<"Failed to search bids: ", ToString(res.status), " ", ResText(res)>>)
    ELSE ResJson(res)

fetchOrganizations(res) ==
    IF ~ResOk(res)
    THEN Rejected(<<"Failed to fetch organizations: ", ToString(res.status)>>)
    ELSE ResJson(res)

fetchIndustries(res) ==
    IF ~ResOk(res)
    THEN Rejected(<<"Failed to fetch industries: ", ToString(res.status)>>)
    ELSE ResJson(res)

fetchRegions(res) ==
    IF ~ResOk(res)
    THEN Rejected(<<"Failed to fetch regions: ", ToString(res.status)>>)
    ELSE ResJson(res)

\* the values of the end-to-end scenario
ExampleValues == <<Num(100), Num(110), Num(105), Num(120), Num(115)>>

\* the bandwidth the chart passes (0.3), the whole series (1) and half as
\* much again (1.5): a series of three points has a window of 3, 3 and 4
Bandwidths == {Rat(3, 10), Num(1), Rat(3, 2)}

\* a series of five points with a gap: its windows are 3, 5 and 7 wide
WideSeries == <<Num(0), Num(10), Null, Num(20), Num(10)>>

\* LOESS sequences with up to MaxLong valid values and nulls among them
LongSeries == [1..MaxLong -> {Null, Num(0), Num(10)}]

Calls ==
    {[fn |-> "generateFutureDates", lastDate |-> d, months |-> m] :
        d \in LastDates, m \in 0..MaxMonths}
    \cup {[fn |-> "predictLOESS", loessValues |-> v, months |-> m] :
        v \in SeqsUpTo(SeriesValues, MaxSeries) \cup LongSeries, m \in 1..MaxMonths}
    \cup {[fn |-> "calculateEMA", series |-> SeriesOf("winningPrice", v),
           key |-> "winningPrice", span |-> sp] :
        v \in SeqsUpTo(SeriesValues \cup {Undefined}, MaxSeries), sp \in {2, EMASpan}}
    \cup {[fn |-> f, res |-> r] : f \in ApiFunctions, r \in Responses}
    \cup {[fn |-> "calculateLOESS", series |-> SeriesOf("winningPrice", v),
           key |-> "winningPrice", bandwidth |-> b] :
        v \in SeqsUpTo(SeriesValues \cup {Undefined}, MaxSeries) \cup {WideSeries},
        b \in Bandwidths}
    \cup {[fn |-> "computeStats", series |-> SeriesOf("winningPrice", v), keys |-> ks] :
        v \in SeqsUpTo(SeriesValues \cup {Undefined}, MaxSeries) \cup {ExampleValues},
        ks \in {<<"winningPrice">>, <<"winningPrice", "basePrice">>}}

NotCalled == [done |-> FALSE, threw |-> FALSE, val |-> <<>>]
Returned(v) == [done |-> TRUE, threw |-> FALSE, val |-> v]
Raised == [done |-> TRUE, threw |-> TRUE, val |-> <<>>]

FnInit ==
    /\ call \in Calls
    /\ ret = NotCalled
    /\ AppIdle /\ ChartIdle

CallGenerateFutureDates ==
    /\ call.fn = "generateFutureDates" /\ ~ret.done
    /\ LET r == generateFutureDates(call.lastDate, call.months)
       IN  ret' = IF r.threw THEN Raised ELSE Returned(r.val)
    /\ UNCHANGED <<call, appVars, chartVars>>

CallPredictLOESS ==
    /\ call.fn = "predictLOESS" /\ ~ret.done
    /\ ret' = Returned(predictLOESS(call.loessValues, call.months))
    /\ UNCHANGED <<call, appVars, chartVars>>

CallCalculateEMA ==
    /\ call.fn = "calculateEMA" /\ ~ret.done
    /\ ret' = Returned(calculateEMA(call.series, call.key, call.span))
    /\ UNCHANGED <<call, appVars, chartVars>>

\* the window of index i (0-based) in a series of n points
WindowSize(n, bandwidth) == Max(3, Floor(RMul(Num(n), bandwidth)))
WindowStart(i, windowSize) == Max(0, i - (windowSize \div 2))
WindowEnd(n, start, windowSize) == Min(n, start + windowSize)

\* result.push at every index: the real values of calculateLOESS, each stored
\* as a double
PushLoess(exact, values, windowSize) ==
    \E r \in {q \in [1..Len(values) -> Roundings] :
                \A x \in 1..Len(values) :
                    q[x] # "exact" =>
                        Inexact(values, x - 1, WindowStart(x - 1, windowSize),
                                WindowEnd(Len(values), WindowStart(x - 1, windowSize),
                                          windowSize))} :
        ret' = Returned(Array([x \in 1..Len(values) |-> Rounded(exact[x], r[x])]))

CallCalculateLOESS ==
    /\ call.fn = "calculateLOESS" /\ ~ret.done
    /\ PushLoess(calculateLOESS(call.series, call.key, call.bandwidth),
                 Array([y \in 1..Len(call.series) |-> Get(call.series[y], call.key)]),
                 WindowSize(Len(call.series), call.bandwidth))
    /\ UNCHANGED <<call, appVars, chartVars>>

CallComputeStats ==
    /\ call.fn = "computeStats" /\ ~ret.done
    /\ ret' = Returned(computeStats(call.series, call.keys))
    /\ UNCHANGED <<call, appVars, chartVars>>

CallApi ==
    /\ call.fn \in ApiFunctions /\ ~ret.done
    /\ ret' = CASE call.fn = "fetchBids" -> fetchBids(call.res)
                [] call.fn = "searchBids" -> searchBids(call.res)
                [] call.fn = "fetchOrganizations" -> fetchOrganizations(call.res)
                [] call.fn = "fetchIndustries" -> fetchIndustries(call.res)
                [] call.fn = "fetchRegions" -> fetchRegions(call.res)
    /\ UNCHANGED <<call, appVars, chartVars>>

FnNext ==
    \/ CallGenerateFutureDates
    \/ CallPredictLOESS
    \/ CallCalculateEMA
    \/ CallCalculateLOESS
    \/ CallComputeStats
    \/ CallApi

SpecFn == FnInit /\ [][FnNext]_vars

(***************************************************************************)
(* Claims about the pure functions, under SpecFn.                          *)
(***************************************************************************)

\* the date k months after the date string s, its day clamped to the length
\* of the target month
ClampedDate(s, k) ==
    LET t == ((s \div 100) % 100) - 1 + k
        yy == (s \div 10000) + (t \div 12)
        mm == (t % 12) + 1
    IN  yy * 10000 + mm * 100 + Min(s % 100, DaysInMonth(yy, mm))

\* C3: for every valid lastDate and horizon M, generateFutureDates returns
\* exactly M dates, the k-th in the month k months after lastDate with the
\* day of lastDate clamped to the last day of that month; in particular
\* generateFutureDates('2024-01-31', 3) is
\* ['2024-02-29', '2024-03-31', '2024-04-30'].
C3_FutureDatesClampMonthEnd ==
    (call.fn = "generateFutureDates" /\ ret.done /\ IsDateString(call.lastDate.n))
        => /\ ~ret.threw
           /\ Len(ret.val) = call.months
           /\ \A k \in 1..call.months :
                 ret.val[k] = Str(ClampedDate(call.lastDate.n, k))
           /\ (call.lastDate = Str(20240131) /\ call.months = 3)
                 => ret.val = <<Str(20240229), Str(20240331), Str(20240430)>>

\* C7: predictLOESS with fewer than 2 valid values returns M copies of the
\* single valid value when one exists (0 included) and M nulls when none does.
C7_PredictLOESSFewValues ==
    (call.fn = "predictLOESS" /\ ret.done)
        => LET valid == {i \in 1..Len(call.loessValues) :
                            ~IsMissing(call.loessValues[i])}
           IN  Cardinality(valid) < 2
                 => /\ Len(ret.val) = call.months
                    /\ \A k \in 1..call.months :
                          ret.val[k] = IF valid = {} THEN Null
                                       ELSE call.loessValues[CHOOSE i \in valid : TRUE]

\* C8: calculateEMA returns a sequence as long as its input; a missing value
\* gives null and leaves the running average alone; the first valid value
\* seeds the average and each later valid value v gives
\* alpha * v + (1 - alpha) * (the average at the previous valid position),
\* alpha = 2 / (span + 1); [10, null, 20] with alpha = 2/3 gives
\* [10, null, 50/3].
C8_EMAGapSkip ==
    (call.fn = "calculateEMA" /\ ret.done)
        => LET in == [i \in 1..Len(call.series) |-> Get(call.series[i], call.key)]
               out == ret.val
               alpha == Rat(2, call.span + 1)
               earlier(i) == {j \in 1..(i - 1) : ~IsMissing(in[j])}
               prev(i) == CHOOSE j \in earlier(i) : \A x \in earlier(i) : x <= j
           IN  /\ Len(out) = Len(in)
               /\ \A i \in 1..Len(in) :
                     IF IsMissing(in[i]) THEN out[i] = Null
                     ELSE IF earlier(i) = {} THEN out[i] = in[i]
                     ELSE out[i] = RAdd(RMul(alpha, in[i]),
                                        RMul(RSub(Num(1), alpha), out[prev(i)]))
               /\ (call.span = 2 /\ in = <<Num(10), Null, Num(20)>>)
                     => out = <<Num(10), Null, Rat(50, 3)>>

\* C8 witness: calculateEMA has run on [10, null, 20] with alpha = 2/3 and
\* continued from 10 across the gap.
C8_Witness ==
    /\ call.fn = "calculateEMA" /\ ret.done /\ call.span = 2
    /\ call.series = SeriesOf("winningPrice", <<Num(10), Null, Num(20)>>)
    /\ ret.val = <<Num(10), Null, Rat(50, 3)>>

\* the error message has the text among its parts (an empty text is in
\* every message)
Mentions(parts, text) == text = "" \/ \E j \in 1..Len(parts) : parts[j] = text

\* C6: each of the five API functions rejects a non-2xx response with an
\* error that carries the status code and the text of the response body.
C6_ApiErrorsCarryStatusAndBody ==
    (call.fn \in ApiFunctions /\ ret.done /\ ~ResOk(call.res))
        => /\ ret.threw
           /\ Mentions(ret.val, ToString(call.res.status))
           /\ Mentions(ret.val, ResText(call.res))

\* the indices of the valid values of a sequence, and the index of the c-th
\* valid value counted from the end
ValidAt(values) == {i \in 1..Len(values) : values[i].k = "num"}
FromEnd(values, c) ==
    CHOOSE i \in ValidAt(values) :
        Cardinality({j \in ValidAt(values) : j >= i}) = c
CappedCount(values) ==
    IF Cardinality(ValidAt(values)) < 5 THEN Cardinality(ValidAt(values)) ELSE 5
ProjectedSlope(values, c) ==
    RDiv(RSub(values[FromEnd(values, 1)], values[FromEnd(values, c)]), Num(c - 1))

\* C15: predictLOESS on a sequence with at least 2 valid values returns M
\* predictions; with c = min(5, number of valid values) and slope = (last
\* valid value - c-th valid value from the end) / (c - 1), the k-th
\* prediction is last valid value + slope * k; null entries are skipped when
\* the last c valid values are selected.
C15_PredictLOESSProjection ==
    (call.fn = "predictLOESS" /\ ret.done
        /\ Cardinality(ValidAt(call.loessValues)) >= 2)
        => /\ ~ret.threw
           /\ Len(ret.val) = call.months
           /\ \A k \in 1..call.months :
                ret.val[k] =
                    RAdd(call.loessValues[FromEnd(call.loessValues, 1)],
                         RMul(ProjectedSlope(call.loessValues,
                                             CappedCount(call.loessValues)),
                              Num(k)))

\* C15 witness: six valid values with a null among the last five of them;
\* the slope over the last five (10/4) is not the slope over all six (10/5)
C15_Witness ==
    /\ call.fn = "predictLOESS" /\ ret.done
    /\ call.loessValues =
         <<Num(0), Num(0), Num(0), Null, Num(0), Num(0), Num(10)>>
    /\ call.months = 2
    /\ ret.val = <<Rat(25, 2), Num(15)>>

\* the values, the window of index i (0-based) and the valid indices in it
\* for the call of calculateLOESS
LoessIn == Array([y \in 1..Len(call.series) |-> Get(call.series[y], call.key)])
LoessW == WindowSize(Len(call.series), call.bandwidth)
LoessStart(i) == WindowStart(i, LoessW)
LoessEnd(i) == WindowEnd(Len(call.series), LoessStart(i), LoessW)
ValidInWindow(i) ==
    {j \in LoessStart(i)..(LoessEnd(i) - 1) : ~IsMissing(LoessIn[j + 1])}

\* C16: calculateLOESS returns a sequence of the same length and order as its
\* input (a point alone in its window comes back with its own value at its
\* own index), and the output is null at every index whose own value is
\* null/NaN/undefined, however many valid neighbours lie in its window.
C16_LoessSelfNull ==
    (call.fn = "calculateLOESS" /\ ret.done)
        => /\ ~ret.threw
           /\ Len(ret.val) = Len(call.series)
           /\ \A i \in 0..(Len(call.series) - 1) :
                /\ IsMissing(LoessIn[i + 1]) => ret.val[i + 1] = Null
                /\ ValidInWindow(i) = {i}
                    => ret.val[i + 1] = Rounded(LoessIn[i + 1], "exact")

\* C16 witness: a null between two valid neighbours stays null while the
\* neighbours are smoothed
C16_Witness ==
    /\ call.fn = "calculateLOESS" /\ ret.done
    /\ LoessIn = <<Num(10), Null, Num(20)>>
    /\ ret.val[2] = Null /\ ret.val[1] # Null /\ ret.val[3] # Null

\* the real number a double stands for, and its order against an exact value
RealOf(v) == [k |-> "num", n |-> v.n, d |-> v.d]
DoubleBelow(v, bound) ==
    RLess(RealOf(v), bound) \/ (RealOf(v) = bound /\ v.r = "below")
DoubleAbove(v, bound) ==
    RLess(bound, RealOf(v)) \/ (RealOf(v) = bound /\ v.r = "above")

\* at a valid index i the point is inside its window with weight 1, every
\* point of the window is nearer than windowSize and has a positive weight,
\* and the weights of the valid points sum to at least 1
WindowSound(i) ==
    /\ LoessStart(i) <= i /\ i < LoessEnd(i)
    /\ TricubeWeight(i, i, LoessW) = Num(1)
    /\ \A j \in LoessStart(i)..(LoessEnd(i) - 1) :
        Abs(i - j) < LoessW /\ RLess(Num(0), TricubeWeight(i, j, LoessW))
    /\ ~RLess(LoessSums(LoessIn, i, LoessStart(i), LoessEnd(i), LoessW).w, Num(1))

\* C20: calculateLOESS yields null at an index iff the input there is
\* missing; at a valid index the point lies in its own window with weight 1,
\* every in-window neighbour has a strictly positive weight, so the weight
\* sum is at least 1 and the null fallback is not taken; and the weighted
\* average, as a real number, lies between the minimum and the maximum valid
\* value in the window (the double the code stores is that number up to
\* rounding).
C20_LoessValidNonNull ==
    (call.fn = "calculateLOESS" /\ ret.done)
        => \A i \in 0..(Len(call.series) - 1) :
            /\ ret.val[i + 1] = Null <=> IsMissing(LoessIn[i + 1])
            /\ ~IsMissing(LoessIn[i + 1])
                => /\ WindowSound(i)
                   /\ \E j \in ValidInWindow(i) :
                        ~RLess(RealOf(ret.val[i + 1]), LoessIn[j + 1])
                   /\ \E j \in ValidInWindow(i) :
                        ~RLess(LoessIn[j + 1], RealOf(ret.val[i + 1]))

\* C20 as stated: the value stored at a valid index itself lies between the
\* minimum and the maximum valid value in the window
C20_LoessStoredWithinRange ==
    (call.fn = "calculateLOESS" /\ ret.done)
        => \A i \in 0..(Len(call.series) - 1) :
            /\ ret.val[i + 1] = Null <=> IsMissing(LoessIn[i + 1])
            /\ ~IsMissing(LoessIn[i + 1])
                => /\ WindowSound(i)
                   /\ \E j \in ValidInWindow(i) :
                        ~DoubleBelow(ret.val[i + 1], LoessIn[j + 1])
                   /\ \E j \in ValidInWindow(i) :
                        ~DoubleAbove(ret.val[i + 1], LoessIn[j + 1])

\* C20 witness: the series [0, null, 10] with the bandwidth 1.5; the window
\* is 4 wide, index 0 averages itself and index 2 (weight 343/512) to
\* 686/171, index 1 stays null
C20_Witness ==
    /\ call.fn = "calculateLOESS" /\ ret.done
    /\ LoessIn = <<Num(0), Null, Num(10)>> /\ call.bandwidth = Rat(3, 2)
    /\ LoessW = 4 /\ ValidInWindow(0) = {0, 2}
    /\ RealOf(ret.val[1]) = Rat(686, 171)
    /\ ret.val[2] = Null /\ ret.val[3] # Null

(***************************************************************************)
(* Claims about the TrendChart pipeline, under SpecChart.                  *)
(***************************************************************************)

\* the date window, on ISO date strings: both bounds inclusive, '' unbounded
InRange(x) == (dateFrom = 0 \/ x >= dateFrom) /\ (dateTo = 0 \/ x <= dateTo)

\* the records of rawData whose ISO date string lies in the window
PassingRecords == {i \in 1..Len(rawData) : InRange(rawData[i].bidDate.n)}
PassCount == Cardinality(PassingRecords)

\* what identifies the record a point comes from: its date and amounts
SourceOf(p) == <<p.bidDate, p.estimatedPrice, p.basePrice, p.winningPrice>>

ActiveKeys == IF mode = "amount" THEN amountKeys ELSE ratioKeys

\* the last element of a sequence of values that is a number, or null
RECURSIVE LastValid(_)
LastValid(values) ==
    IF values = <<>> THEN Null
    ELSE IF ~IsMissing(values[Len(values)]) THEN values[Len(values)]
    ELSE LastValid(SubSeq(values, 1, Len(values) - 1))

\* C4: with showEMA on and at least one historical point, the <field>_EMA of
\* every forecast point is the last non-null value of the field's historical
\* EMA sequence (null only when the field has no valid value at all).
C4_EMAForecastLastValid ==
    (~chartData.threw /\ showEMA /\ PassCount > 0 /\ Len(chartData.val) > PassCount)
        => \A x \in 1..Len(ActiveKeys) :
              LET name == ActiveKeys[x] \o "_EMA"
                  hist == [j \in 1..PassCount |-> Get(chartData.val[j], name)]
              IN  \A i \in (PassCount + 1)..Len(chartData.val) :
                      Get(chartData.val[i], name) = LastValid(hist)

\* C5: a record whose bidDate is not a date is not fatal: the pipeline
\* completes, and the valid fields of the record are kept (with no date
\* window set, the record is among the points).
C5_BadDateNotFatal ==
    \A i \in 1..Len(rawData) :
        ~IsDateString(rawData[i].bidDate.n)
            => /\ ~chartData.threw
               /\ (dateFrom = 0 /\ dateTo = 0)
                     => \E j \in 1..Len(chartData.val) :
                            SourceOf(chartData.val[j]) = SourceOf(rawData[i])

\* a forecast point: the five fields of a record are all null
IsForecastPoint(p) == \A key \in FieldKeys : p[key] = Null

\* C9: the historical points are exactly the records whose ISO date string d
\* has (dateFrom empty or d >= dateFrom) and (dateTo empty or d <= dateTo):
\* every record is in the output as often as it is in rawData when its date
\* is in the window and not at all when it is before dateFrom or after
\* dateTo, and the output holds nothing else but forecast points, after the
\* historical ones.
C9_DateFilter ==
    ~chartData.threw
        => /\ \A r \in {rawData[i] : i \in 1..Len(rawData)} :
                 Cardinality({i \in 1..Len(chartData.val) :
                                 SourceOf(chartData.val[i]) = SourceOf(r)})
                   = Cardinality({i \in PassingRecords : rawData[i] = r})
           /\ Len(chartData.val) >= PassCount
           /\ \A i \in 1..Len(chartData.val) :
                 IF i <= PassCount
                 THEN /\ ~IsForecastPoint(chartData.val[i])
                      /\ InRange(chartData.val[i].bidDate.n)
                      /\ \E j \in PassingRecords :
                            SourceOf(chartData.val[i]) = SourceOf(rawData[j])
                 ELSE IsForecastPoint(chartData.val[i])

\* C9 witness: with both bounds set, a record dated on the bound is kept and
\* another record is filtered out.
C9_Witness ==
    /\ ~chartData.threw /\ dateFrom # 0 /\ dateTo # 0
    /\ Len(rawData) = 2 /\ PassCount = 1
    /\ \E i \in PassingRecords : rawData[i].bidDate.n = dateFrom
    /\ \E i \in 1..Len(rawData) : rawData[i].bidDate.n > dateTo
    /\ Len(chartData.val) = 1
    /\ SourceOf(chartData.val[1]) \in {SourceOf(rawData[i]) : i \in PassingRecords}

\* C10: the output ends with exactly 3 synthetic points, after all
\* historical points, iff (showEMA or showLOESS) and a record passes the
\* date filter; otherwise it has none.  A synthetic point has all five
\* original fields null.
C10_ForecastPoints ==
    ~chartData.threw
        => LET val == chartData.val
           IN  /\ Len(val) = PassCount
                     + (IF (showEMA \/ showLOESS) /\ PassCount > 0 THEN 3 ELSE 0)
               /\ \A i \in 1..Len(val) :
                     IF i <= PassCount
                     THEN \E j \in PassingRecords : SourceOf(val[i]) = SourceOf(rawData[j])
                     ELSE \A key \in FieldKeys : val[i][key] = Null

\* C10 witness: one smoother is on, a record passes the filter and three
\* synthetic points follow the historical ones.
C10_Witness ==
    /\ ~chartData.threw /\ showEMA /\ ~showLOESS /\ PassCount > 0
    /\ Len(chartData.val) = PassCount + 3
    /\ \A key \in FieldKeys : chartData.val[PassCount + 3][key] = Null

\* the records that pass the date window and carry a number in the field
NumericRecords(key) == {i \in PassingRecords : IsNumber(rawData[i][key])}

\* the sum of the field over a set of records of rawData
RECURSIVE SumOver(_, _)
SumOver(idx, key) ==
    IF idx = {} THEN Num(0)
    ELSE LET i == CHOOSE x \in idx : TRUE
         IN  RAdd(rawData[i][key], SumOver(idx \ {i}, key))

\* st is the mean, minimum and maximum of the numbers of the field among
\* the passing records, scaled by factor; all null when there is none
IsMeanMinMax(st, key, factor) ==
    LET idx == NumericRecords(key)
        value(i) == RMul(rawData[i][key], Num(factor))
    IN  IF idx = {} THEN st = NoStats
        ELSE /\ RMul(st.avg, Num(Cardinality(idx))) = RMul(SumOver(idx, key), Num(factor))
             /\ \E i \in idx : st.min = value(i)
             /\ \E i \in idx : st.max = value(i)
             /\ \A i \in idx : ~RLess(value(i), st.min) /\ ~RLess(st.max, value(i))

\* the end-to-end scenario: five records of 2024-01-01..05 in a shuffled
\* order, only the winning price present
ExamplePoint(i) == Record(Str(20240100 + i), Null, Null, ExampleValues[i], Null, Null)
ExampleRaw == <<ExamplePoint(3), ExamplePoint(1), ExamplePoint(5), ExamplePoint(2),
                ExamplePoint(4)>>
ExampleOut == Pipeline(ExampleRaw, 0, 0, "amount", FALSE, FALSE)

\* C12: with both smoothers off in amount mode, for every input order the
\* output is exactly the records that pass the date filter, in ascending
\* bidDate order, every field unchanged, with no _EMA or _LOESS field and no
\* forecast point; the stats of a visible field are the mean, minimum and
\* maximum of its numbers; the values [100,110,105,120,115] give avg 110,
\* min 100, max 120.
C12_NoSmoothingEndToEnd ==
    /\ (mode = "amount" /\ ~showEMA /\ ~showLOESS /\ ~chartData.threw)
          => LET val == chartData.val
                 keys == visibleKeys(mode, checked)
             IN  /\ Len(val) = PassCount
                 /\ \A i \in 1..Len(val) : \E j \in PassingRecords : val[i] = rawData[j]
                 /\ \A j \in PassingRecords :
                       Cardinality({i \in 1..Len(val) : val[i] = rawData[j]})
                         = Cardinality({x \in PassingRecords : rawData[x] = rawData[j]})
                 /\ \A i, j \in 1..Len(val) :
                       i < j => val[i].bidDate.n <= val[j].bidDate.n
                 /\ DOMAIN stats = {keys[x] : x \in 1..Len(keys)}
                 /\ \A key \in DOMAIN stats : IsMeanMinMax(stats[key], key, 1)
    /\ ~ExampleOut.threw
    /\ ExampleOut.val = [i \in 1..5 |-> ExamplePoint(i)]
    /\ computeStats(ExampleOut.val, <<"winningPrice">>)["winningPrice"]
          = [avg |-> Num(110), min |-> Num(100), max |-> Num(120)]

\* C12 witness: two records given in descending date order come out in
\* ascending order, unchanged, with the stats of their winning prices
C12_Witness ==
    /\ mode = "amount" /\ ~showEMA /\ ~showLOESS /\ ~chartData.threw
    /\ rawData = <<VecA(Str(20240210)), VecB(Str(20240131))>>
    /\ chartData.val = <<VecB(Str(20240131)), VecA(Str(20240210))>>
    /\ checked["winningPrice"]
    /\ stats["winningPrice"] = [avg |-> Num(75), min |-> Num(60), max |-> Num(90)]

\* rawData with a number in field F of record i
Filled(i, F) == [rawData EXCEPT ![i][F] = VecA(rawData[i].bidDate)[F]]

\* the points p and q agree on field G and on its smoothed fields
SameField(p, q, G) ==
    /\ Get(p, G) = Get(q, G)
    /\ Get(p, G \o "_EMA") = Get(q, G \o "_EMA")
    /\ Get(p, G \o "_LOESS") = Get(q, G \o "_LOESS")

\* the output for `other` differs from the output of the state in field F only
SameButField(other, F) ==
    /\ ~other.threw
    /\ Len(other.val) = Len(chartData.val)
    /\ \A j \in 1..Len(chartData.val) :
          /\ other.val[j].bidDate = chartData.val[j].bidDate
          /\ \A x \in 1..Len(ModeKeys(mode)) :
                ModeKeys(mode)[x] # F
                    => SameField(chartData.val[j], other.val[j], ModeKeys(mode)[x])
    /\ \A G \in DOMAIN stats :
          G # F => computeStats(other.val, visibleKeys(mode, checked))[G] = stats[G]

\* C13: a record with a null value in field F is kept as a historical point;
\* for every other field G the stats, the EMA sequence and the LOESS
\* sequence are those obtained when F holds a number in that record; the
\* record is absent only from the stats and the smoothing of F itself.
C13_NullFieldIsolation ==
    ~chartData.threw
        => \A i \in 1..Len(rawData) : \A x \in 1..Len(ModeKeys(mode)) :
              LET F == ModeKeys(mode)[x]
              IN  (IsMissing(rawData[i][F]) /\ Representable(Filled(i, F)))
                    => /\ Len(chartData.val) >= PassCount
                       /\ i \in PassingRecords
                             => \E j \in 1..PassCount :
                                    SourceOf(chartData.val[j]) = SourceOf(rawData[i])
                       /\ SameButField(Pipeline(Filled(i, F), dateFrom, dateTo, mode,
                                                 showEMA, showLOESS), F)
                       /\ F \in DOMAIN stats
                             => IsMeanMinMax(stats[F], F, IF mode = "amount" THEN 1 ELSE 100)
                       /\ \A j \in 1..PassCount :
                             IsMissing(Get(chartData.val[j], F))
                                 => /\ IsMissing(Get(chartData.val[j], F \o "_EMA"))
                                    /\ IsMissing(Get(chartData.val[j], F \o "_LOESS"))

\* C13 witness: the second record has no winning price; with both smoothers
\* on it is a historical point whose base price is smoothed and whose
\* winning price is not, and the stats of the winning price count one record
C13_Witness ==
    /\ ~chartData.threw /\ mode = "amount" /\ showEMA /\ showLOESS
    /\ rawData = <<VecA(Str(20240115)), VecC(Str(20240131))>>
    /\ PassCount = 2
    /\ chartData.val[2]["winningPrice_EMA"] = Null
    /\ chartData.val[2]["basePrice_EMA"] = Num(110)
    /\ chartData.val[2]["basePrice_LOESS"] = Num(110)
    /\ checked["winningPrice"]
    /\ stats["winningPrice"] = [avg |-> Num(90), min |-> Num(90), max |-> Num(90)]
    /\ stats["basePrice"] = [avg |-> Num(110), min |-> Num(110), max |-> Num(110)]

\* C17: the stats cover exactly the checked fields of the active mode and are
\* computed from the filtered historical records only (mean, minimum and
\* maximum of the field's numbers, as percentages in ratio mode); whatever
\* showEMA and showLOESS are toggled to, which appends forecast points and
\* derived fields to the data given to computeStats, the stats are the ones
\* of the data with both toggles off: no avg, min or max changes.
C17_StatsFrame ==
    ~chartData.threw
        => /\ DOMAIN stats = {k \in FieldKeys :
                /\ checked[k]
                /\ \E x \in 1..Len(ActiveKeys) : ActiveKeys[x] = k}
           /\ \A key \in DOMAIN stats :
                IsMeanMinMax(stats[key], key, IF mode = "amount" THEN 1 ELSE 100)
           /\ computeStats(Pipeline(rawData, dateFrom, dateTo, mode, FALSE, FALSE).val,
                           visibleKeys(mode, checked)) = stats

\* C17 witness: both smoothers on and three forecast points appended, the
\* winning price unchecked; the stats hold the other amount fields only, one
\* of them with numbers
C17_Witness ==
    /\ mode = "amount" /\ showEMA /\ showLOESS /\ ~chartData.threw
    /\ PassCount > 0 /\ Len(chartData.val) = PassCount + 3
    /\ ~checked["winningPrice"]
    /\ DOMAIN stats = {"estimatedPrice", "basePrice"}
    /\ \E key \in DOMAIN stats : stats[key] # NoStats

\* the points of `one` carry, for every field of the mode, the derived field
\* with the given suffix that the points of the state carry
SameDerived(one, suffix) ==
    /\ ~one.threw
    /\ Len(one.val) = Len(chartData.val)
    /\ \A j \in 1..Len(chartData.val) : \A x \in 1..Len(ModeKeys(mode)) :
          Get(one.val[j], ModeKeys(mode)[x] \o suffix)
              = Get(chartData.val[j], ModeKeys(mode)[x] \o suffix)

\* C21: the two smoothers are independent of each other and of the order of
\* attachment. With both toggles on, for every field of the mode the
\* <field>_LOESS of every historical and forecast point is the one obtained
\* with showLOESS alone, and the <field>_EMA is the one obtained with showEMA
\* alone.
C21_SmoothersIndependent ==
    (showEMA /\ showLOESS /\ ~chartData.threw)
        => /\ SameDerived(Pipeline(rawData, dateFrom, dateTo, mode, FALSE, TRUE), "_LOESS")
           /\ SameDerived(Pipeline(rawData, dateFrom, dateTo, mode, TRUE, FALSE), "_EMA")

\* C21 witness: both smoothers on over two historical points whose winning
\* prices differ, so that the second point's EMA and LOESS are both off its
\* own value, with the three forecast points appended
C21_Witness ==
    /\ mode = "amount" /\ showEMA /\ showLOESS /\ ~chartData.threw
    /\ PassCount = 2 /\ Len(chartData.val) = 5
    /\ ~IsMissing(chartData.val[2].winningPrice)
    /\ ~IsMissing(Get(chartData.val[2], "winningPrice_EMA"))
    /\ Get(chartData.val[2], "winningPrice_EMA") # chartData.val[2].winningPrice
    /\ ~IsMissing(Get(chartData.val[2], "winningPrice_LOESS"))
    /\ Get(chartData.val[2], "winningPrice_LOESS") # chartData.val[2].winningPrice
    /\ ~IsMissing(Get(chartData.val[5], "winningPrice_LOESS"))

\* every record of rawData has a date that parses
DatesParse == \A i \in 1..Len(rawData) : IsDateString(rawData[i].bidDate.n)

\* C14: an empty series is not an error. When no record passes the date
\* filter (rawData empty included), in every mode and for every combination
\* of the smoothing toggles the pipeline returns no point, so no forecast
\* point either, without throwing, and the stats of every visible field are
\* {avg: null, min: null, max: null}.
C14_EmptySeries ==
    (DatesParse /\ PassCount = 0)
        => /\ ~chartData.threw
           /\ chartData.val = <<>>
           /\ LET keys == visibleKeys(mode, checked)
              IN  /\ DOMAIN stats = {keys[x] : x \in 1..Len(keys)}
                  /\ \A key \in DOMAIN stats : stats[key] = NoStats

\* C14 witness: the window excludes the only record while both smoothers are
\* on in ratio mode; the output is empty and the stats are null
C14_Witness ==
    /\ Len(rawData) = 1 /\ DatesParse /\ PassCount = 0
    /\ mode = "ratio" /\ showEMA /\ showLOESS
    /\ ~chartData.threw /\ chartData.val = <<>>
    /\ stats["estRatio"] = NoStats

(***************************************************************************)
(* Claims about App, checked under Spec.                                   *)
(***************************************************************************)
LatestRequest == Len(requests)

\* request i settles (its promise resolves or rejects) in this step
Settles(i) == requests[i].state = "pending" /\ requests'[i].state # "pending"

\* the request was sent with a keyword parameter
CarriesKeyword(r) == "keyword" \in DOMAIN r.url

\* C1: last request wins. A request that settles after a newer one was
\* issued leaves data, error and loading as they are, and data is only ever
\* set from the response of the most recently issued request. A request is
\* superseded when the effect has issued a newer one: between a render with
\* a new debouncedKeyword and the run of its effect, the request of the
\* render before is still the latest and its response is taken.
C1_LastRequestWins ==
    [][ /\ \A i \in 1..Len(requests) :
              (Settles(i) /\ i # LatestRequest) => UNCHANGED <<data, error, loading>>
        /\ data' # data => (Settles(LatestRequest) /\ data'.req = LatestRequest)
      ]_vars

\* two requests were superseded in turn; the response of the first and the
\* failure of the second arrived while the third is pending, and data, error
\* and loading are as the third request set them
C1_Witness ==
    /\ Len(requests) = 3
    /\ requests[1].state = "resolved" /\ requests[2].state = "rejected"
    /\ requests[3].state = "pending" /\ requests[3].mounted
    /\ data = NoData /\ error = Null /\ loading

\* C2: a request carries keyword K only after the input held K for the
\* whole debounce delay; every edit cancels the timer of the older value.
C2_KeywordDebounce ==
    /\ \A i \in 1..Len(requests) :
          CarriesKeyword(requests[i]) => keywordHeld[requests[i].url["keyword"]]
    /\ \A t \in timers : t.value = keyword

\* "ab" was held for the delay, and the request of a later change of the
\* date filter carries it; the input now shows "a", which it has never held
\* for the delay and whose timer is not due, and no request carries "a"
C2_Witness ==
    /\ keyword = "a" /\ ~keywordHeld["a"]
    /\ \E t \in timers : t.value = "a" /\ t.elapsed < DebounceMs
    /\ \E i \in 1..Len(requests) :
          /\ CarriesKeyword(requests[i]) /\ requests[i].url["keyword"] = "ab"
          /\ "bid_date_from" \in DOMAIN requests[i].url
    /\ \A i \in 1..Len(requests) :
          CarriesKeyword(requests[i]) => requests[i].url["keyword"] # "a"

\* a step of the option effect: one of its fetches settles
OptionStep == optionFetches' # optionFetches

\* C11: a failure of an option fetch is not fatal. Once a fetch has failed
\* the three option lists stay empty, and no step of the option effect
\* touches the error, the data, the loading flag or the requests of the
\* main bid fetch, whatever the outcome of the option fetch.
C11_OptionFailureNotFatal ==
    /\ []((\E f \in Selects : optionFetches[f] = "failed") => options = NoOptions)
    /\ [][OptionStep => UNCHANGED <<data, loading, error, requests>>]_vars

\* one option fetch has failed after the other two succeeded, the lists are
\* empty, and the main fetch has delivered its data with no error
C11_Witness ==
    /\ optionFetches["region"] = "failed"
    /\ optionFetches["organization"] = "ok" /\ optionFetches["industry"] = "ok"
    /\ options = NoOptions
    /\ data.req = LatestRequest /\ ~loading /\ error = Null
    /\ appMounted /\ ~RenderThrows(loading, data)


\* C18: loading is false exactly when the most recently issued request has
\* settled: issuing a request sets it to true, the settlement of the latest
\* request (success or failure) sets it to false, the settlement of a
\* superseded request leaves it as it is; so it is false, and stays false,
\* from the settlement of the last request on.
C18_LoadingUntilLatestSettles ==
    loading <=> requests[LatestRequest].state = "pending"

\* C18 witness: the first two requests settled after they were superseded,
\* then the third one failed; loading is false
C18_Witness ==
    /\ Len(requests) = 3
    /\ requests[1].state = "resolved" /\ requests[2].state = "resolved"
    /\ requests[3].state = "rejected"
    /\ ~loading /\ data = NoData

\* request i fails in this step
Fails(i) == Settles(i) /\ requests'[i].state = "rejected"

\* C19: the error is never reset. A request that fails while it is the latest
\* sets error; a non-null error stays non-null in every later step, a later
\* successful request that replaces data included; and a failing request
\* leaves data as it is.
C19_ErrorNeverReset ==
    [][ /\ error # Null => error' # Null
        /\ \A i \in 1..Len(requests) :
              Fails(i) => /\ data' = data
                          /\ i = LatestRequest => error' # Null
      ]_vars

\* C19 witness: the first request failed, then the requests of two changes
\* of the filters succeeded; data is what the third request delivered and
\* the error of the first request is still there
C19_Witness ==
    /\ Len(requests) = 3
    /\ requests[1].state = "rejected"
    /\ requests[2].state = "resolved" /\ requests[3].state = "resolved"
    /\ error = [k |-> "error", n |-> 1, d |-> 1]
    /\ data.req = 3 /\ ~loading
    /\ requests[2].url # requests[1].url /\ requests[3].url # requests[2].url
    /\ appMounted /\ ~RenderThrows(loading, data)

====
